---- MODULE Spec2Model ----
(***************************************************************************)
(* gfx-memory: hierarchical device-memory sub-allocation.                  *)
(*                                                                         *)
(* RootAllocator   one device allocation per block        (root.rs)        *)
(* ArenaAllocator  bump allocation over a ring of chunks  (arena.rs)       *)
(* ChunkedAllocator power-of-two size classes             (chunked.rs)     *)
(* CombinedAllocator routes to the three above            (combined.rs)    *)
(* GenericSmartAllocator one Combined per memory type     (smart.rs)       *)
(*                                                                         *)
(* Every allocator operation is an operator from the allocator's state     *)
(* (and its owner's and the device's) to a result record                   *)
(*   [err, panic, self, root, dev, block]                                  *)
(* so that the layers compose exactly as the Rust calls do.  The actions   *)
(* at the end apply them to the state variables.                           *)
(***************************************************************************)
EXTENDS Integers, Sequences, FiniteSets, TLC

(***************************************************************************)
(* Bounds of the model.                                                    *)
(***************************************************************************)
\* device memory objects that can be alive at the same time
MaxMem == 3
\* blocks the client holds at the same time
MaxLive == 3
\* alloc calls the client makes
MaxCalls == 4
\* blocks the client holds at the same time in the FIFO arena workload
FifoMaxLive == 8
\* alloc calls the client makes in the FIFO arena workload
FifoMaxCalls == 10
\* alloc calls the client makes in the FIFO arena workload that is followed to
\* its end
DrainMaxCalls == 5
BalanceMaxCalls == 8
\* items the client of the factory holds at the same time
FactoryMaxLive == 2
\* create calls the client of the factory makes
FactoryMaxCalls == 3
\* alloc calls the client makes in the alignment workload
AlignMaxCalls == 3

(***************************************************************************)
(* Integer helpers: the bit operations of u64 on naturals.                 *)
(***************************************************************************)
RECURSIVE BitOr(_, _)
BitOr(a, b) ==
    IF a = 0 THEN b
    ELSE IF b = 0 THEN a
    ELSE (IF a % 2 = 1 \/ b % 2 = 1 THEN 1 ELSE 0) + 2 * BitOr(a \div 2, b \div 2)

RECURSIVE BitAnd(_, _)
BitAnd(a, b) ==
    IF a = 0 \/ b = 0 THEN 0
    ELSE (IF a % 2 = 1 /\ b % 2 = 1 THEN 1 ELSE 0) + 2 * BitAnd(a \div 2, b \div 2)

\* 1 << n
Shl1(n) == 2 ^ n

\* number of significant bits of q: 64 - q.leading_zeros()
RECURSIVE BitLen(_)
BitLen(q) == IF q = 0 THEN 0 ELSE 1 + BitLen(q \div 2)

\* the element of a singleton: Only({e : a \in {v}}) is e with a bound to the
\* value of v, a let whose right-hand side is evaluated once
Only(S) == CHOOSE x \in S : TRUE

Min(a, b) == IF a < b THEN a ELSE b

\* a maximum that looks at its first argument only
FirstOf(a, b) == a

Max(a, b) == IF a > b THEN a ELSE b

\* 2^64, the modulus of the u64 subtractions that can wrap, scaled to the
\* 32-bit integers of the model checker: every quantity of the model is far
\* below it, so a wrapped difference is, as in the code, larger than any of them
U64 == 2 ^ 30

(***************************************************************************)
(* lib.rs: alignment helpers.                                              *)
(***************************************************************************)
\* a rounding that does not step back from the offset first
shift_for_alignment_from_offset(alignment, offset) ==
    IF offset > 0 /\ alignment > 0
    THEN BitOr(offset, alignment - 1) + 1
    ELSE offset

shift_for_alignment(alignment, offset) ==
    IF offset > 0 /\ alignment > 0
    THEN BitOr(offset - 1, alignment - 1) + 1
    ELSE offset

alignment_shift(alignment, offset) ==
    shift_for_alignment(alignment, offset) - offset

\* (1 << id) & type_mask == 0
MaskExcludes(type_mask, id) == BitAnd(Shl1(id), type_mask) = 0

(***************************************************************************)
(* block.rs: a block is a memory object and a byte range.                  *)
(***************************************************************************)
MemIds == 1 .. MaxMem

RawBlock(memory, start, end) == [memory |-> memory, start |-> start, end |-> end]
\* no block: the memory handle of a real block is one of MemIds
NoBlock == RawBlock(0, 0, 0)

BlockSize(b) == b.end - b.start

BlockContains(b, other) ==
    /\ b.memory = other.memory
    /\ b.start <= other.start
    /\ b.end >= other.end

(***************************************************************************)
(* The device: which memory objects are alive, of which type and size.     *)
(* allocate_memory may refuse (devOk = FALSE, or no object left).          *)
(***************************************************************************)
NoObj == [type |-> 0, size |-> 0]

DevFree(dev) == {m \in MemIds : dev[m] = NoObj}
DevCanAlloc(dev, devOk) == devOk /\ DevFree(dev) # {}
\* the handle of the new object: an address not in use, possibly reused
DevFresh(dev) == CHOOSE m \in DevFree(dev) : \A n \in DevFree(dev) : m <= n
DevAllocate(dev, m, id, size) == [dev EXCEPT ![m] = [type |-> id, size |-> size]]
DevRelease(dev, m) == [dev EXCEPT ![m] = NoObj]

(***************************************************************************)
(* Results of an allocator call.                                           *)
(***************************************************************************)
Res(err, panic, self, root, dev, block) ==
    [err |-> err, panic |-> panic, self |-> self, root |-> root, dev |-> dev,
     block |-> block]

(***************************************************************************)
(* root.rs: RootAllocator.                                                 *)
(***************************************************************************)
RootNew(id) == [id |-> id, used |-> 0]

\* an alloc whose block starts past the beginning of the memory object
RootAllocOffset(root, dev, reqs, devOk) ==
    IF ~DevCanAlloc(dev, devOk)
    THEN Res("OutOfMemory", FALSE, root, root, dev, NoBlock)
    ELSE Res("Ok", FALSE, [root EXCEPT !.used = @ + reqs.size],
             [root EXCEPT !.used = @ + reqs.size],
             DevAllocate(dev, DevFresh(dev), root.id, reqs.size + reqs.alignment),
             RawBlock(DevFresh(dev), reqs.alignment, reqs.alignment + reqs.size))

RootAlloc(root, dev, reqs, devOk) ==
    IF ~DevCanAlloc(dev, devOk)
    THEN Res("OutOfMemory", FALSE, root, root, dev, NoBlock)
    ELSE LET m == DevFresh(dev)
             r == [root EXCEPT !.used = @ + reqs.size]
         IN Res("Ok", FALSE, r, r, DevAllocate(dev, m, root.id, reqs.size),
                RawBlock(m, 0, reqs.size))

\* a free that releases the memory and keeps the byte count
RootFreeNoDebit(root, dev, block) ==
    Res("Ok", FALSE, root, root, DevRelease(dev, block.memory), NoBlock)

\* assert_eq!(start, 0); free_memory; used -= size
RootFree(root, dev, block) ==
    IF block.start # 0 \/ dev[block.memory] = NoObj \/ BlockSize(block) > root.used
    THEN Res("Ok", TRUE, root, root, dev, NoBlock)
    ELSE LET r == [root EXCEPT !.used = @ - BlockSize(block)]
         IN Res("Ok", FALSE, r, r, DevRelease(dev, block.memory), NoBlock)

\* an allocator that never reports use
RootNeverUsed(root) == FALSE

RootIsUsed(root) == root.used # 0

(***************************************************************************)
(* arena.rs: ArenaNode, one chunk of the owner with a bump offset.         *)
(***************************************************************************)
ArenaNodeNew(block) == [used |-> 0, freed |-> 0, block |-> block]
\* hot: None
NoNode == ArenaNodeNew(NoBlock)

\* a bump allocation that leaves `used` where it was
ArenaNodeAllocNoBump(node, reqs) ==
    LET offset == node.block.start + node.used
        total_size == reqs.size + alignment_shift(reqs.alignment, offset)
    IN IF BlockSize(node.block) - node.used < total_size
       THEN [ok |-> FALSE, node |-> node, block |-> NoBlock]
       ELSE [ok |-> TRUE, node |-> node,
             block |-> RawBlock(node.block.memory, offset, total_size + offset)]

\* a bump allocation that moves `used` also when the block does not fit
ArenaNodeAllocBumpsAnyway(node, reqs) ==
    LET offset == node.block.start + node.used
        total_size == reqs.size + alignment_shift(reqs.alignment, offset)
    IN IF BlockSize(node.block) - node.used < total_size
       THEN [ok |-> FALSE, node |-> [node EXCEPT !.used = @ + total_size], block |-> NoBlock]
       ELSE [ok |-> TRUE,
             node |-> [node EXCEPT !.used = @ + total_size],
             block |-> RawBlock(node.block.memory, offset, total_size + offset)]

ArenaNodeAlloc(node, reqs) ==
    LET offset == node.block.start + node.used
        total_size == reqs.size + alignment_shift(reqs.alignment, offset)
    IN IF BlockSize(node.block) - node.used < total_size
       THEN [ok |-> FALSE, node |-> node, block |-> NoBlock]
       ELSE [ok |-> TRUE,
             node |-> [node EXCEPT !.used = @ + total_size],
             block |-> RawBlock(node.block.memory, offset, total_size + offset)]

ArenaNodeIsUsed(node) == node.freed # node.used

\* a free that credits nothing to the node
ArenaNodeFreeNoCredit(node, block) == [panic |-> FALSE, node |-> node]

\* assert!(self.block.contains(&block)); self.freed += block.size()
ArenaNodeFree(node, block) ==
    IF ~BlockContains(node.block, block)
    THEN [panic |-> TRUE, node |-> node]
    ELSE [panic |-> FALSE, node |-> [node EXCEPT !.freed = @ + BlockSize(block)]]

\* Err(self) when used, else owner.free(block)
ArenaNodeDispose(node, root, dev) ==
    IF ArenaNodeIsUsed(node)
    THEN Res("StillInUse", FALSE, node, root, dev, NoBlock)
    ELSE LET f == RootFree(root, dev, node.block)
         IN Res("Ok", f.panic, node, f.root, f.dev, NoBlock)

(***************************************************************************)
(* arena.rs: ArenaAllocator.                                               *)
(***************************************************************************)
ArenaNew(id, chunk_size) ==
    [id |-> id, chunk_size |-> chunk_size, freed |-> 0, hot |-> NoNode, nodes |-> <<>>]

ArenaIsUsed(arena) ==
    \/ arena.nodes # <<>>
    \/ (arena.hot # NoNode /\ ArenaNodeIsUsed(arena.hot))

\* while the front node is drained: pop it; swap it with a used hot node or
\* return its chunk to the owner; freed += 1
\* a cleanup that pops nothing
ArenaCleanupNothing(arena, root, dev) == Res("Ok", FALSE, arena, root, dev, NoBlock)

\* a cleanup that returns every drained front chunk to the owner at once
RECURSIVE ArenaCleanupDisposes(_, _, _)
ArenaCleanupDisposes(arena, root, dev) ==
    IF arena.nodes = <<>> \/ ArenaNodeIsUsed(Head(arena.nodes))
    THEN Res("Ok", FALSE, arena, root, dev, NoBlock)
    ELSE LET d == ArenaNodeDispose(Head(arena.nodes), root, dev)
         IN ArenaCleanupDisposes([arena EXCEPT !.nodes = Tail(@), !.freed = @ + 1],
                                 d.root, d.dev)

\* a cleanup that swaps the drained front node with the hot node without
\* counting it as popped
RECURSIVE ArenaCleanupNoCount(_, _, _)
ArenaCleanupNoCount(arena, root, dev) ==
    IF arena.nodes = <<>> \/ ArenaNodeIsUsed(Head(arena.nodes))
    THEN Res("Ok", FALSE, arena, root, dev, NoBlock)
    ELSE IF arena.hot # NoNode /\ ArenaNodeIsUsed(arena.hot)
    THEN ArenaCleanupNoCount([arena EXCEPT !.nodes = Append(Tail(@), arena.hot),
                                           !.hot = Head(arena.nodes)], root, dev)
    ELSE LET d == ArenaNodeDispose(Head(arena.nodes), root, dev)
         IN ArenaCleanupNoCount([arena EXCEPT !.nodes = Tail(@), !.freed = @ + 1],
                                d.root, d.dev)

RECURSIVE ArenaCleanup(_, _, _)
ArenaCleanup(arena, root, dev) ==
    IF arena.nodes = <<>> \/ ArenaNodeIsUsed(Head(arena.nodes))
    THEN Res("Ok", FALSE, arena, root, dev, NoBlock)
    ELSE LET node == Head(arena.nodes)
             rest == Tail(arena.nodes)
         IN IF arena.hot = NoNode
            THEN \* the popped node is dropped with its chunk: Relevant traps
                 Res("Ok", TRUE, arena, root, dev, NoBlock)
            ELSE IF ArenaNodeIsUsed(arena.hot)
            THEN ArenaCleanup([arena EXCEPT !.nodes = Append(rest, arena.hot),
                                            !.hot = node,
                                            !.freed = @ + 1], root, dev)
            ELSE LET d == ArenaNodeDispose(node, root, dev)
                 IN IF d.panic \/ d.err # "Ok"
                    THEN Res("Ok", TRUE, arena, root, dev, NoBlock)
                    ELSE ArenaCleanup([arena EXCEPT !.nodes = rest, !.freed = @ + 1],
                                      d.root, d.dev)

\* size rounded up to a multiple of chunk_size, requested from the owner
ArenaAllocateNode(arena, root, dev, reqs, devOk) ==
    LET size == ((reqs.size - 1) \div arena.chunk_size + 1) * arena.chunk_size
        arena_requirements == [type_mask |-> Shl1(arena.id), size |-> size,
                               alignment |-> reqs.alignment]
    IN RootAlloc(root, dev, arena_requirements, devOk)

ArenaAlloc(arena, root, dev, reqs, devOk) ==
    IF MaskExcludes(reqs.type_mask, arena.id)
    THEN Res("NoCompatibleMemoryType", FALSE, arena, root, dev, NoBlock)
    ELSE
    LET index == arena.freed + Len(arena.nodes)
        h == IF arena.hot # NoNode THEN ArenaNodeAlloc(arena.hot, reqs)
             ELSE [ok |-> FALSE, node |-> NoNode, block |-> NoBlock]
        \* the hot node as hot.alloc(reqs) has left it
        tried == [arena EXCEPT !.hot = h.node]
    IN IF h.ok
       THEN Res("Ok", FALSE, tried, root, dev, [block |-> h.block, tag |-> index])
       ELSE
       LET o == ArenaAllocateNode(tried, root, dev, reqs, devOk)
       IN IF o.err # "Ok"
          THEN Res(o.err, FALSE, tried, root, dev, NoBlock)
          ELSE
          LET n == ArenaNodeAlloc(ArenaNodeNew(o.block), reqs)
              \* replace(&mut self.hot, Some(node)), then dispose the old hot node
              d == IF tried.hot # NoNode
                   THEN ArenaNodeDispose(tried.hot, o.root, o.dev)
                   ELSE Res("Ok", FALSE, NoNode, o.root, o.dev, NoBlock)
              nodes2 == IF tried.hot # NoNode /\ d.err # "Ok"
                        THEN Append(tried.nodes, tried.hot)
                        ELSE tried.nodes
              index2 == tried.freed + Len(nodes2)
          IN IF ~n.ok \/ d.panic
             THEN Res("Ok", TRUE, arena, root, dev, NoBlock)
             ELSE Res("Ok", FALSE,
                      [tried EXCEPT !.hot = n.node, !.nodes = nodes2],
                      d.root, d.dev, [block |-> n.block, tag |-> index2])

\* index = tag - freed: the hot node when it equals nodes.len(), a FIFO node
\* when it is less, unreachable!() otherwise (a tag below freed wraps)
ArenaFree(arena, root, dev, block, tag) ==
    LET index == tag - arena.freed
        len == Len(arena.nodes)
    IN IF tag < arena.freed \/ index > len \/ (index = len /\ arena.hot = NoNode)
       THEN Res("Ok", TRUE, arena, root, dev, NoBlock)
       ELSE IF index = len
       THEN LET f == ArenaNodeFree(arena.hot, block)
            IN Res("Ok", f.panic, [arena EXCEPT !.hot = f.node], root, dev, NoBlock)
       ELSE LET f == ArenaNodeFree(arena.nodes[index + 1], block)
            IN IF f.panic
               THEN Res("Ok", TRUE, arena, root, dev, NoBlock)
               ELSE ArenaCleanup([arena EXCEPT !.nodes[index + 1] = f.node], root, dev)

\* a dispose that keeps the hot chunk
ArenaDisposeKeepsHot(arena, root, dev) ==
    IF ArenaIsUsed(arena)
    THEN Res("StillInUse", FALSE, arena, root, dev, NoBlock)
    ELSE Res("Ok", FALSE, arena, root, dev, NoBlock)

ArenaDispose(arena, root, dev) ==
    IF ArenaIsUsed(arena)
    THEN Res("StillInUse", FALSE, arena, root, dev, NoBlock)
    ELSE IF arena.hot = NoNode
    THEN Res("Ok", FALSE, arena, root, dev, NoBlock)
    ELSE LET d == ArenaNodeDispose(arena.hot, root, dev)
         IN Res("Ok", d.panic \/ d.err # "Ok", [arena EXCEPT !.hot = NoNode],
                d.root, d.dev, NoBlock)

(***************************************************************************)
(* chunked.rs: ChunkedNode, one size class.  chunk_index and block_index   *)
(* count from 0 as in the code; the sequences count from 1.                *)
(***************************************************************************)
ChunkedNodeNew(chunk_size, block_size, id) ==
    [id |-> id, chunk_size |-> chunk_size, block_size |-> block_size,
     free |-> <<>>, chunks |-> <<>>]

ChunkedNodeBlocksPerChunk(node) == node.chunk_size \div node.block_size

ChunkedNodeCount(node) == Len(node.chunks) * ChunkedNodeBlocksPerChunk(node)

ChunkedNodeIsUsed(node) == ChunkedNodeCount(node) # Len(node.free)

\* the requirements grow asks the owner to meet
ChunkedNodeGrowReqs(node) ==
    [type_mask |-> Shl1(node.id), size |-> node.chunk_size, alignment |-> node.block_size]

\* a new chunk from the owner; its slots are appended to the free list
ChunkedNodeGrow(node, root, dev, devOk) ==
    LET reqs == ChunkedNodeGrowReqs(node)
        o == RootAlloc(root, dev, reqs, devOk)
        chunk == o.block
        blocks_per_chunk == ChunkedNodeBlocksPerChunk(node)
        chunk_index == Len(node.chunks)
    IN IF o.err # "Ok"
       THEN Res(o.err, FALSE, node, root, dev, NoBlock)
       ELSE IF alignment_shift(reqs.alignment, chunk.start) # 0
               \/ BlockSize(chunk) < node.chunk_size
       THEN Res("Ok", TRUE, node, root, dev, NoBlock)
       ELSE Res("Ok", FALSE,
                [node EXCEPT
                   !.free = @ \o [i \in 1 .. blocks_per_chunk |->
                                    [chunk_index |-> chunk_index, block_index |-> i - 1]],
                   !.chunks = Append(@, chunk)],
                o.root, o.dev, NoBlock)

\* an allocation that leaves the slot on the free list
ChunkedNodeAllocNoPop(node) ==
    IF node.free = <<>>
    THEN [ok |-> FALSE, node |-> node, block |-> NoBlock, tag |-> 0]
    ELSE LET free_block == Head(node.free)
             chunk == node.chunks[free_block.chunk_index + 1]
             offset == free_block.block_index * node.block_size + chunk.start
         IN [ok |-> TRUE, node |-> node,
             block |-> RawBlock(chunk.memory, offset, node.block_size + offset),
             tag |-> free_block.chunk_index]

\* pop the front of the free list
ChunkedNodeAllocNoGrow(node) ==
    IF node.free = <<>>
    THEN [ok |-> FALSE, node |-> node, block |-> NoBlock, tag |-> 0]
    ELSE LET free_block == Head(node.free)
             chunk == node.chunks[free_block.chunk_index + 1]
             offset == free_block.block_index * node.block_size + chunk.start
         IN [ok |-> TRUE,
             node |-> [node EXCEPT !.free = Tail(@)],
             block |-> RawBlock(chunk.memory, offset, node.block_size + offset),
             tag |-> free_block.chunk_index]

ChunkedNodeAlloc(node, root, dev, reqs, devOk) ==
    IF MaskExcludes(reqs.type_mask, node.id)
    THEN Res("NoCompatibleMemoryType", FALSE, node, root, dev, NoBlock)
    ELSE
    LET a == ChunkedNodeAllocNoGrow(node)
        g == ChunkedNodeGrow(node, root, dev, devOk)
        b == IF a.ok THEN a ELSE ChunkedNodeAllocNoGrow(g.self)
        r == IF a.ok THEN root ELSE g.root
        d == IF a.ok THEN dev ELSE g.dev
    IN IF ~a.ok /\ g.err # "Ok"
       THEN Res(g.err, FALSE, node, root, dev, NoBlock)
       ELSE IF (~a.ok /\ g.panic) \/ ~b.ok
               \* assert!(block.size() >= reqs.size)
               \/ BlockSize(b.block) < reqs.size
               \* assert_eq!(block.range().start & (reqs.alignment - 1), 0)
               \/ BitAnd(b.block.start, reqs.alignment - 1) # 0
       THEN Res("Ok", TRUE, node, root, dev, NoBlock)
       ELSE Res("Ok", FALSE, b.node, r, d, [block |-> b.block, tag |-> b.tag])

\* a free that also gives up the node's last chunk
ChunkedNodeFreeDropsChunk(node, block, tag) ==
    [panic |-> FALSE,
     node |-> [node EXCEPT !.free = <<>>,
                           !.chunks = SubSeq(@, 1, Len(@) - 1)]]

\* a free that puts the slot at the back of the free list
ChunkedNodeFreeBack(node, block, tag) ==
    [panic |-> FALSE,
     node |-> [node EXCEPT !.free =
         Append(@, [chunk_index |-> tag,
                    block_index |-> (block.start - node.chunks[tag + 1].start) \div node.block_size])]]

\* push the slot back onto the front of the free list
ChunkedNodeFree(node, block, tag) ==
    IF \/ block.start % node.block_size # 0
       \/ BlockSize(block) # node.block_size
       \/ tag + 1 > Len(node.chunks)
    THEN [panic |-> TRUE, node |-> node]
    ELSE LET chunk == node.chunks[tag + 1]
         IN IF chunk.memory # block.memory \/ block.start < chunk.start
            THEN [panic |-> TRUE, node |-> node]
            ELSE [panic |-> FALSE,
                  node |-> [node EXCEPT !.free =
                      <<[chunk_index |-> tag,
                         block_index |-> (block.start - chunk.start) \div node.block_size]>>
                      \o @]]

\* owner.free of every chunk, in order
RECURSIVE FreeChunks(_, _, _)
FreeChunks(chunks, root, dev) ==
    IF chunks = <<>>
    THEN Res("Ok", FALSE, chunks, root, dev, NoBlock)
    ELSE LET f == RootFree(root, dev, Head(chunks))
         IN IF f.panic
            THEN Res("Ok", TRUE, chunks, root, dev, NoBlock)
            ELSE FreeChunks(Tail(chunks), f.root, f.dev)

ChunkedNodeDispose(node, root, dev) ==
    IF ChunkedNodeIsUsed(node)
    THEN Res("StillInUse", FALSE, node, root, dev, NoBlock)
    ELSE LET f == FreeChunks(node.chunks, root, dev)
         IN Res("Ok", f.panic, [node EXCEPT !.chunks = <<>>], f.root, f.dev, NoBlock)

(***************************************************************************)
(* chunked.rs: ChunkedAllocator, the vector of size classes.               *)
(***************************************************************************)
ChunkedNew(blocks_per_chunk, min_block_size, max_chunk_size, id) ==
    [id |-> id, blocks_per_chunk |-> blocks_per_chunk,
     min_block_size |-> min_block_size, max_chunk_size |-> max_chunk_size,
     nodes |-> <<>>]

ChunkedIsUsed(ca) == \E i \in 1 .. Len(ca.nodes) : ChunkedNodeIsUsed(ca.nodes[i])

ChunkedBlockSize(ca, index) == ca.min_block_size * Shl1(index)

\* a chunk size that max_chunk_size does not cap
ChunkedChunkSizeUncapped(ca, index) == ChunkedBlockSize(ca, index) * ca.blocks_per_chunk

ChunkedChunkSize(ca, index) ==
    Min(ChunkedBlockSize(ca, index) * ca.blocks_per_chunk, ca.max_chunk_size)

\* a class index computed from size instead of size - 1
PickNodeOfSize(ca, size) == BitLen(size \div ca.min_block_size)

\* bits - ((size - 1) / min_block_size).leading_zeros()
PickNode(ca, size) == BitLen((size - 1) \div ca.min_block_size)

\* assert_ne!(size, 0), and with debug assertions the three debug_assert!s
PickNodePanics(ca, size, debug) ==
    \/ size = 0
    \/ /\ debug
       /\ \/ size > ca.max_chunk_size
          \/ size > ChunkedBlockSize(ca, PickNode(ca, size))
          \/ (PickNode(ca, size) # 0
              /\ size <= ChunkedBlockSize(ca, PickNode(ca, size) - 1))

\* push the classes len .. index
ChunkedGrow(ca, index) ==
    IF index + 1 <= Len(ca.nodes)
    THEN ca
    ELSE [ca EXCEPT !.nodes = @ \o
            [j \in 1 .. (index + 1 - Len(ca.nodes)) |->
                ChunkedNodeNew(ChunkedChunkSize(ca, Len(ca.nodes) + j - 1),
                               ChunkedBlockSize(ca, Len(ca.nodes) + j - 1), ca.id)]]

ChunkedAlloc(ca, root, dev, reqs, devOk, debug) ==
    IF Max(reqs.size, reqs.alignment) > ca.max_chunk_size
    THEN Res("OutOfMemory", FALSE, ca, root, dev, NoBlock)
    ELSE IF PickNodePanics(ca, Max(reqs.size, reqs.alignment), debug)
    THEN Res("Ok", TRUE, ca, root, dev, NoBlock)
    ELSE
    LET index == PickNode(ca, Max(reqs.size, reqs.alignment))
        grown == ChunkedGrow(ca, index)
    IN Only({Res(a.err, a.panic, [grown EXCEPT !.nodes[index + 1] = a.self],
                 a.root, a.dev, a.block) :
             a \in {ChunkedNodeAlloc(grown.nodes[index + 1], root, dev, reqs, devOk)}})

ChunkedFree(ca, root, dev, block, tag, debug) ==
    IF PickNodePanics(ca, BlockSize(block), debug)
       \/ PickNode(ca, BlockSize(block)) + 1 > Len(ca.nodes)
    THEN Res("Ok", TRUE, ca, root, dev, NoBlock)
    ELSE LET index == PickNode(ca, BlockSize(block))
             f == ChunkedNodeFree(ca.nodes[index + 1], block, tag)
         IN Res("Ok", f.panic, [ca EXCEPT !.nodes[index + 1] = f.node],
                root, dev, NoBlock)

RECURSIVE DisposeNodes(_, _, _)
DisposeNodes(nodes, root, dev) ==
    IF nodes = <<>>
    THEN Res("Ok", FALSE, nodes, root, dev, NoBlock)
    ELSE Only({IF d.panic \/ d.err # "Ok"
               THEN Res("Ok", TRUE, nodes, root, dev, NoBlock)
               ELSE DisposeNodes(Tail(nodes), d.root, d.dev) :
               d \in {ChunkedNodeDispose(Head(nodes), root, dev)}})

ChunkedDispose(ca, root, dev) ==
    IF ChunkedIsUsed(ca)
    THEN Res("StillInUse", FALSE, ca, root, dev, NoBlock)
    ELSE Only({Res("Ok", d.panic, [ca EXCEPT !.nodes = <<>>], d.root, d.dev, NoBlock) :
               d \in {DisposeNodes(ca.nodes, root, dev)}})

(***************************************************************************)
(* combined.rs: CombinedAllocator.  A combined block is a raw block with   *)
(* the tag Arena(t), Chunked(t) or Root: [block, kind, tag].               *)
(* Results: [err, panic, self, dev, block].                                *)
(***************************************************************************)
CRes(err, panic, self, dev, block) ==
    [err |-> err, panic |-> panic, self |-> self, dev |-> dev, block |-> block]

CombinedBlock(block, kind, tag) == [block |-> block, kind |-> kind, tag |-> tag]

CombinedNew(memory_type_id, arena_chunk_size, blocks_per_chunk, min_block_size, max_chunk_size) ==
    [root |-> RootNew(memory_type_id),
     root_used |-> 0,
     arenas |-> ArenaNew(memory_type_id, arena_chunk_size),
     chunks |-> ChunkedNew(blocks_per_chunk, min_block_size, max_chunk_size,
                           memory_type_id),
     allocations |-> 0]

\* an alloc that asks the root allocator whatever the request and counts the
\* call before it knows the outcome
CombinedAllocCounts(c, dev, request, reqs, devOk, debug) ==
    Only({CRes(a.err, a.panic, [c EXCEPT !.root = a.root, !.allocations = @ + 1], a.dev,
               IF a.err = "Ok" /\ ~a.panic THEN CombinedBlock(a.block, "Root", 0) ELSE NoBlock) :
          a \in {RootAlloc(c.root, dev, reqs, devOk)}})

\* ShortLived: arena.  General: root when size > max_chunk_size / 2, else chunked.
CombinedAlloc(c, dev, request, reqs, devOk, debug) ==
    IF request = "ShortLived"
    THEN Only({IF a.err # "Ok" \/ a.panic
               THEN CRes(a.err, a.panic, [c EXCEPT !.arenas = a.self, !.root = a.root],
                         a.dev, NoBlock)
               ELSE CRes("Ok", FALSE,
                         [c EXCEPT !.arenas = a.self, !.root = a.root,
                                   !.allocations = @ + 1],
                         a.dev, CombinedBlock(a.block.block, "Arena", a.block.tag)) :
               a \in {ArenaAlloc(c.arenas, c.root, dev, reqs, devOk)}})
    ELSE IF reqs.size > c.chunks.max_chunk_size \div 2
    THEN Only({IF a.err # "Ok" \/ a.panic
               THEN CRes(a.err, a.panic, c, dev, NoBlock)
               ELSE CRes("Ok", FALSE,
                         [c EXCEPT !.root = a.root,
                                   !.root_used = @ + BlockSize(a.block),
                                   !.allocations = @ + 1],
                         a.dev, CombinedBlock(a.block, "Root", 0)) :
               a \in {RootAlloc(c.root, dev, reqs, devOk)}})
    ELSE Only({IF a.err # "Ok" \/ a.panic
               THEN CRes(a.err, a.panic, [c EXCEPT !.chunks = a.self, !.root = a.root],
                         a.dev, NoBlock)
               ELSE CRes("Ok", FALSE,
                         [c EXCEPT !.chunks = a.self, !.root = a.root,
                                   !.allocations = @ + 1],
                         a.dev, CombinedBlock(a.block.block, "Chunked", a.block.tag)) :
               a \in {ChunkedAlloc(c.chunks, c.root, dev, reqs, devOk, debug)}})

\* a free that hands every block to the root allocator
CombinedFreeToRoot(c, dev, cb, debug) ==
    LET f == RootFree(c.root, dev, cb.block)
    IN CRes("Ok", f.panic, [c EXCEPT !.root = f.root, !.allocations = @ - 1],
            f.dev, NoBlock)

\* a free that leaves the allocation count as it was
CombinedFreeKeepsCount(c, dev, cb, debug) ==
    Only({IF f.panic THEN CRes("Ok", TRUE, c, dev, NoBlock)
          ELSE CRes("Ok", FALSE,
                    IF cb.kind = "Arena" THEN [c EXCEPT !.arenas = f.self, !.root = f.root]
                    ELSE IF cb.kind = "Chunked"
                    THEN [c EXCEPT !.chunks = f.self, !.root = f.root]
                    ELSE [c EXCEPT !.root = f.root, !.root_used = @ - BlockSize(cb.block)],
                    f.dev, NoBlock) :
          f \in {IF cb.kind = "Arena"
                 THEN ArenaFree(c.arenas, c.root, dev, cb.block, cb.tag)
                 ELSE IF cb.kind = "Chunked"
                 THEN ChunkedFree(c.chunks, c.root, dev, cb.block, cb.tag, debug)
                 ELSE RootFree(c.root, dev, cb.block)}})

\* dispatch on the tag; allocations -= 1
CombinedFree(c, dev, cb, debug) ==
    Only({LET c2 == IF cb.kind = "Arena"
                    THEN [c EXCEPT !.arenas = f.self, !.root = f.root]
                    ELSE IF cb.kind = "Chunked"
                    THEN [c EXCEPT !.chunks = f.self, !.root = f.root]
                    ELSE [c EXCEPT !.root = f.root,
                                   !.root_used = @ - BlockSize(cb.block)]
          IN IF f.panic
                \/ (cb.kind = "Root" /\ BlockSize(cb.block) > c.root_used)
                \/ c.allocations = 0
             THEN CRes("Ok", TRUE, c, dev, NoBlock)
             ELSE CRes("Ok", FALSE, [c2 EXCEPT !.allocations = @ - 1], f.dev, NoBlock) :
          f \in {IF cb.kind = "Arena"
                 THEN ArenaFree(c.arenas, c.root, dev, cb.block, cb.tag)
                 ELSE IF cb.kind = "Chunked"
                 THEN ChunkedFree(c.chunks, c.root, dev, cb.block, cb.tag, debug)
                 ELSE RootFree(c.root, dev, cb.block)}})

CombinedIsUsed(c) == c.allocations # 0

\* debug_assert!(!self.arenas.is_used() && !self.chunks.is_used())
CombinedIsUsedPanics(c, debug) ==
    debug /\ c.allocations = 0 /\ (ArenaIsUsed(c.arenas) \/ ChunkedIsUsed(c.chunks))

RootDispose(root) == IF RootIsUsed(root) THEN "StillInUse" ELSE "Ok"

\* arenas, chunks, root, each unwrapped
CombinedDispose(c, dev, debug) ==
    IF CombinedIsUsedPanics(c, debug)
    THEN CRes("Ok", TRUE, c, dev, NoBlock)
    ELSE IF CombinedIsUsed(c)
    THEN CRes("StillInUse", FALSE, c, dev, NoBlock)
    ELSE Only({IF a.panic \/ a.err # "Ok"
               THEN CRes("Ok", TRUE, c, dev, NoBlock)
               ELSE Only({IF k.panic \/ k.err # "Ok" \/ RootDispose(k.root) # "Ok"
                          THEN CRes("Ok", TRUE, c, dev, NoBlock)
                          ELSE CRes("Ok", FALSE,
                                    [c EXCEPT !.arenas = a.self, !.chunks = k.self,
                                              !.root = k.root],
                                    k.dev, NoBlock) :
                          k \in {ChunkedDispose(c.chunks, a.root, a.dev)}}) :
               a \in {ArenaDispose(c.arenas, c.root, dev)}})

(***************************************************************************)
(* smart.rs: Heap and GenericSmartAllocator over CombinedAllocator.        *)
(* A smart block is a combined block with the memory-type index: [cb, ty]. *)
(***************************************************************************)
HeapNew(size) == [size |-> size, used |-> 0]

\* size - used wraps when used > size (and traps with overflow checks)
HeapUnderflows(heap) == heap.used > heap.size

HeapAvailable(heap) ==
    IF heap.used > heap.size THEN heap.size + U64 - heap.used
    ELSE heap.size - heap.used

\* a comparison that prefers the heap used most
UsageLess(heap, other) == heap.used * other.size < other.used * heap.size

\* a comparison that also replaces the candidate on equal usage
UsageGreaterOrEqual(heap, other) == heap.used * other.size >= other.used * heap.size

\* used as f32 / size as f32 > other: the casts and the division are exact
\* enough to order the ratios at the sizes of this model
UsageGreater(heap, other) == heap.used * other.size > other.used * heap.size

SmartNew(memory_types, memory_heaps, arena_chunk_size, blocks_per_chunk, min_block_size, max_chunk_size) ==
    [allocators |-> [i \in 1 .. Len(memory_types) |->
                       [memory_type |-> memory_types[i],
                        allocator |-> CombinedNew(i - 1, arena_chunk_size,
                                                  blocks_per_chunk, min_block_size,
                                                  max_chunk_size)]],
     heaps |-> [h \in 1 .. Len(memory_heaps) |-> HeapNew(memory_heaps[h])]]

\* a filter that looks at the mask only
SmartCompatibleMaskOnly(index, memory_type, prop, reqs) ==
    BitAnd(Shl1(index), reqs.type_mask) = Shl1(index)

\* the filter on a memory type: its bit is in the mask and it has the properties
SmartCompatible(index, memory_type, prop, reqs) ==
    /\ BitAnd(Shl1(index), reqs.type_mask) = Shl1(index)
    /\ prop \subseteq memory_type.properties

\* a scan that starts as if a compatible type had been seen
NoCandidateSeen == [compatible |-> TRUE, candidate |-> -1, usage |-> HeapNew(1),
                    trap |-> FALSE]

NoCandidate == [compatible |-> FALSE, candidate |-> -1, usage |-> HeapNew(1),
                trap |-> FALSE]

\* the loop over the memory types, from index on
RECURSIVE SmartScan(_, _, _, _, _)
SmartScan(s, prop, reqs, index, acc) ==
    IF index >= Len(s.allocators)
    THEN acc
    ELSE
    LET memory_type == s.allocators[index + 1].memory_type
        heap == s.heaps[memory_type.heap_index + 1]
    IN IF ~SmartCompatible(index, memory_type, prop, reqs)
       THEN SmartScan(s, prop, reqs, index + 1, acc)
       ELSE
       LET seen == [acc EXCEPT !.compatible = TRUE,
                               !.trap = @ \/ HeapUnderflows(heap)]
       IN IF HeapAvailable(heap) < reqs.size + reqs.alignment
          THEN SmartScan(s, prop, reqs, index + 1, seen)
          ELSE IF seen.candidate # -1 /\ UsageGreater(seen.usage, heap)
          THEN SmartScan(s, prop, reqs, index + 1,
                         [seen EXCEPT !.candidate = index, !.usage = heap])
          ELSE IF seen.candidate = -1
          THEN SmartScan(s, prop, reqs, index + 1,
                         [seen EXCEPT !.candidate = index, !.usage = heap])
          ELSE SmartScan(s, prop, reqs, index + 1, seen)

SmartBlock(cb, ty) == [cb |-> cb, ty |-> ty]

SmartAlloc(s, dev, request, prop, reqs, devOk, debug) ==
    Only({LET chosen == scan.candidate
          IN IF scan.trap /\ debug
             THEN CRes("Ok", TRUE, s, dev, NoBlock)
             ELSE IF chosen = -1
             THEN CRes(IF ~scan.compatible THEN "NoCompatibleMemoryType"
                       ELSE "OutOfMemory",
                       FALSE, s, dev, NoBlock)
             ELSE
             Only({LET s1 == [s EXCEPT !.allocators[chosen + 1].allocator = a.self]
                       h == s.allocators[chosen + 1].memory_type.heap_index
                   IN IF a.err # "Ok" \/ a.panic
                      THEN CRes(a.err, a.panic, s1, a.dev, NoBlock)
                      ELSE CRes("Ok", FALSE,
                                [s1 EXCEPT !.heaps[h + 1].used =
                                               @ + BlockSize(a.block.block)],
                                a.dev, SmartBlock(a.block, chosen)) :
                   a \in {CombinedAlloc(s.allocators[chosen + 1].allocator, dev,
                                        request, reqs, devOk, debug)}}) :
          scan \in {SmartScan(s, prop, reqs, 0, NoCandidate)}})

\* a free that leaves the heap counter as it was
SmartFreeNoDebit(s, dev, sb, debug) ==
    Only({IF f.panic THEN CRes("Ok", TRUE, s, dev, NoBlock)
          ELSE CRes("Ok", FALSE, [s EXCEPT !.allocators[sb.ty + 1].allocator = f.self],
                    f.dev, NoBlock) :
          f \in {CombinedFree(s.allocators[sb.ty + 1].allocator, dev, sb.cb, debug)}})

\* debit the heap, then free on the type's allocator
SmartFree(s, dev, sb, debug) ==
    LET h == s.allocators[sb.ty + 1].memory_type.heap_index
        size == BlockSize(sb.cb.block)
        under == size > s.heaps[h + 1].used
        used == IF under THEN s.heaps[h + 1].used + U64 - size
                ELSE s.heaps[h + 1].used - size
    IN Only({IF (under /\ debug) \/ f.panic
             THEN CRes("Ok", TRUE, s, dev, NoBlock)
             ELSE CRes("Ok", FALSE,
                       [s EXCEPT !.heaps[h + 1].used = used,
                                 !.allocators[sb.ty + 1].allocator = f.self],
                       f.dev, NoBlock) :
             f \in {CombinedFree(s.allocators[sb.ty + 1].allocator, dev, sb.cb,
                                 debug)}})

SmartIsUsed(s) ==
    \E i \in 1 .. Len(s.allocators) : CombinedIsUsed(s.allocators[i].allocator)

\* any() stops at the first allocator in use
SmartIsUsedPanics(s, debug) ==
    \E i \in 1 .. Len(s.allocators) :
        /\ CombinedIsUsedPanics(s.allocators[i].allocator, debug)
        /\ \A j \in 1 .. (i - 1) : ~CombinedIsUsed(s.allocators[j].allocator)

RECURSIVE DisposeAllocators(_, _, _, _)
DisposeAllocators(s, i, dev, debug) ==
    IF i > Len(s.allocators)
    THEN CRes("Ok", FALSE, s, dev, NoBlock)
    ELSE Only({IF d.panic \/ d.err # "Ok"
               THEN CRes("Ok", TRUE, s, dev, NoBlock)
               ELSE DisposeAllocators([s EXCEPT !.allocators[i].allocator = d.self],
                                      i + 1, d.dev, debug) :
               d \in {CombinedDispose(s.allocators[i].allocator, dev, debug)}})

SmartDispose(s, dev, debug) ==
    IF SmartIsUsedPanics(s, debug)
    THEN CRes("Ok", TRUE, s, dev, NoBlock)
    ELSE IF SmartIsUsed(s)
    THEN CRes("StillInUse", FALSE, s, dev, NoBlock)
    ELSE DisposeAllocators(s, 1, dev, debug)

(***************************************************************************)
(* The client.  It owns one allocator of the hierarchy (layer) and calls   *)
(* alloc, free and dispose on it; the sub-allocators are called with a     *)
(* RootAllocator as owner.  The allocators of every layer live in one      *)
(* GenericSmartAllocator value; the layers below Smart use the allocators  *)
(* of memory type 0.  A block in the client's hands is                     *)
(*   [memory, start, end, kind, tag, ty].                                  *)
(***************************************************************************)
Layers == {"root", "arena", "chunked", "combined", "smart"}

Flat(block, kind, tag, ty) ==
    [memory |-> block.memory, start |-> block.start, end |-> block.end,
     kind |-> kind, tag |-> tag, ty |-> ty]

NoFlat == Flat(NoBlock, "None", 0, 0)

Raw(b) == RawBlock(b.memory, b.start, b.end)

Reqs(rq) == [type_mask |-> rq.type_mask, size |-> rq.size, alignment |-> rq.alignment]

LayerAlloc(l, s, dev, rq, devOk, debug) ==
    LET c == s.allocators[1].allocator
    IN CASE l = "root" ->
              Only({CRes(a.err, a.panic,
                         [s EXCEPT !.allocators[1].allocator.root = a.root], a.dev,
                         IF a.err = "Ok" THEN Flat(a.block, "Root", 0, 0) ELSE NoFlat) :
                    a \in {RootAlloc(c.root, dev, Reqs(rq), devOk)}})
         [] l = "arena" ->
              Only({CRes(a.err, a.panic,
                         [s EXCEPT !.allocators[1].allocator.arenas = a.self,
                                   !.allocators[1].allocator.root = a.root], a.dev,
                         IF a.err = "Ok" /\ ~a.panic
                         THEN Flat(a.block.block, "Arena", a.block.tag, 0) ELSE NoFlat) :
                    a \in {ArenaAlloc(c.arenas, c.root, dev, Reqs(rq), devOk)}})
         [] l = "chunked" ->
              Only({CRes(a.err, a.panic,
                         [s EXCEPT !.allocators[1].allocator.chunks = a.self,
                                   !.allocators[1].allocator.root = a.root], a.dev,
                         IF a.err = "Ok" /\ ~a.panic
                         THEN Flat(a.block.block, "Chunked", a.block.tag, 0)
                         ELSE NoFlat) :
                    a \in {ChunkedAlloc(c.chunks, c.root, dev, Reqs(rq), devOk, debug)}})
         [] l = "combined" ->
              Only({CRes(a.err, a.panic, [s EXCEPT !.allocators[1].allocator = a.self],
                         a.dev,
                         IF a.err = "Ok" /\ ~a.panic
                         THEN Flat(a.block.block, a.block.kind, a.block.tag, 0)
                         ELSE NoFlat) :
                    a \in {CombinedAlloc(c, dev, rq.request, Reqs(rq), devOk, debug)}})
         [] OTHER ->
              Only({CRes(a.err, a.panic, a.self, a.dev,
                         IF a.err = "Ok" /\ ~a.panic
                         THEN Flat(a.block.cb.block, a.block.cb.kind, a.block.cb.tag,
                                   a.block.ty)
                         ELSE NoFlat) :
                    a \in {SmartAlloc(s, dev, rq.request, rq.prop, Reqs(rq), devOk,
                                      debug)}})

LayerFree(l, s, dev, b, debug) ==
    LET c == s.allocators[1].allocator
    IN CASE l = "root" ->
              Only({CRes("Ok", f.panic,
                         [s EXCEPT !.allocators[1].allocator.root = f.root], f.dev,
                         NoFlat) :
                    f \in {RootFree(c.root, dev, Raw(b))}})
         [] l = "arena" ->
              Only({CRes("Ok", f.panic,
                         [s EXCEPT !.allocators[1].allocator.arenas = f.self,
                                   !.allocators[1].allocator.root = f.root], f.dev,
                         NoFlat) :
                    f \in {ArenaFree(c.arenas, c.root, dev, Raw(b), b.tag)}})
         [] l = "chunked" ->
              Only({CRes("Ok", f.panic,
                         [s EXCEPT !.allocators[1].allocator.chunks = f.self,
                                   !.allocators[1].allocator.root = f.root], f.dev,
                         NoFlat) :
                    f \in {ChunkedFree(c.chunks, c.root, dev, Raw(b), b.tag, debug)}})
         [] l = "combined" ->
              Only({CRes("Ok", f.panic, [s EXCEPT !.allocators[1].allocator = f.self],
                         f.dev, NoFlat) :
                    f \in {CombinedFree(c, dev, CombinedBlock(Raw(b), b.kind, b.tag),
                                        debug)}})
         [] OTHER ->
              SmartFree(s, dev, SmartBlock(CombinedBlock(Raw(b), b.kind, b.tag), b.ty),
                        debug)

LayerIsUsed(l, s) ==
    LET c == s.allocators[1].allocator
    IN CASE l = "root" -> RootIsUsed(c.root)
         [] l = "arena" -> ArenaIsUsed(c.arenas)
         [] l = "chunked" -> ChunkedIsUsed(c.chunks)
         [] l = "combined" -> CombinedIsUsed(c)
         [] OTHER -> SmartIsUsed(s)

LayerDispose(l, s, dev, debug) ==
    LET c == s.allocators[1].allocator
    IN CASE l = "root" -> CRes(RootDispose(c.root), FALSE, s, dev, NoFlat)
         [] l = "arena" ->
              Only({CRes(d.err, d.panic,
                         [s EXCEPT !.allocators[1].allocator.arenas = d.self,
                                   !.allocators[1].allocator.root = d.root], d.dev,
                         NoFlat) :
                    d \in {ArenaDispose(c.arenas, c.root, dev)}})
         [] l = "chunked" ->
              Only({CRes(d.err, d.panic,
                         [s EXCEPT !.allocators[1].allocator.chunks = d.self,
                                   !.allocators[1].allocator.root = d.root], d.dev,
                         NoFlat) :
                    d \in {ChunkedDispose(c.chunks, c.root, dev)}})
         [] l = "combined" ->
              Only({CRes(d.err, d.panic, [s EXCEPT !.allocators[1].allocator = d.self],
                         d.dev, NoFlat) :
                    d \in {CombinedDispose(c, dev, debug)}})
         [] OTHER -> SmartDispose(s, dev, debug)

(***************************************************************************)
(* The blanket Factory implementation over a MemoryAllocator (factory.rs). *)
(* The device's answers are inputs: created is the outcome of              *)
(* create_buffer / create_image, rq carries the requirements the device    *)
(* reports for the new resource, bound is the outcome of                   *)
(* bind_buffer_memory / bind_image_memory.  The device keeps no table of   *)
(* resources in the model; an Item carries its resource.                   *)
(***************************************************************************)
Item(raw, size, block) == [raw |-> raw, size |-> size, block |-> block]

NoItem == Item("None", 0, NoFlat)

\* Block for Item: the block's memory, offset .. offset + size
ItemRange(item) == [memory |-> item.block.memory, start |-> item.block.start, end |-> item.block.start + item.size]

\* the variants of FactoryError and the From conversions into them
FactoryOk == <<"Ok">>

FromMemoryError(error) == <<"MemoryError", error>>

FromBufferCreationError == <<"BufferCreationError">>

FromImageCreationError == <<"ImageCreationError">>

FRes(err, panic, self, dev, item) == [err |-> err, panic |-> panic, self |-> self, dev |-> dev, item |-> item]

\* create the resource, allocate for its requirements, bind with unwrap()
FactoryCreate(raw, createError, l, s, dev, rq, itemSize, created, bound, devOk, debug) ==
    IF ~created THEN FRes(createError, FALSE, s, dev, NoItem)
    ELSE Only({IF a.panic THEN FRes(FactoryOk, TRUE, s, dev, NoItem)
               ELSE IF a.err # "Ok"
               THEN FRes(FromMemoryError(a.err), FALSE, a.self, a.dev, NoItem)
               ELSE IF ~bound THEN FRes(FactoryOk, TRUE, a.self, a.dev, NoItem)
               ELSE FRes(FactoryOk, FALSE, a.self, a.dev, Item(raw, itemSize, a.block)) :
               a \in {LayerAlloc(l, s, dev, rq, devOk, debug)}})

\* Item { raw: buf, block, size }
FactoryCreateBuffer(l, s, dev, rq, size, created, bound, devOk, debug) ==
    FactoryCreate("buffer", FromBufferCreationError, l, s, dev, rq, size, created, bound, devOk, debug)

\* Item { raw: img, block, size: reqs.size }
FactoryCreateImage(l, s, dev, rq, created, bound, devOk, debug) ==
    FactoryCreate("image", FromImageCreationError, l, s, dev, rq, rq.size, created, bound, devOk, debug)

\* device.destroy_buffer(buffer.raw); self.free(device, buffer.block)
FactoryDestroyBuffer(l, s, dev, buffer, debug) == LayerFree(l, s, dev, buffer.block, debug)

\* device.destroy_image(image.raw); self.free(device, image.block)
FactoryDestroyImage(l, s, dev, image, debug) == LayerFree(l, s, dev, image.block, debug)

(***************************************************************************)
(* Configuration: the constructor parameters and the device description.   *)
(***************************************************************************)
\* ArenaAllocator::new(id, chunk_size)
ArenaChunkSize == 4
\* ChunkedAllocator::new(blocks_per_chunk, min_block_size, max_chunk_size, id)
BlocksPerChunk == 2
MinBlockSize == 4
MaxChunkSize == 8
\* the arena of the FIFO workload
FifoChunkSize == 256

\* two memory types on two heaps of different size
TwoHeaps ==
    [memory_types |-> <<[properties |-> {"DEVICE_LOCAL"}, heap_index |-> 0],
                        [properties |-> {"DEVICE_LOCAL", "CPU_VISIBLE"}, heap_index |-> 1]>>,
     memory_heaps |-> <<8, 16>>]

\* two memory types sharing one heap
OneHeap ==
    [memory_types |-> <<[properties |-> {"DEVICE_LOCAL"}, heap_index |-> 0],
                        [properties |-> {"DEVICE_LOCAL", "CPU_VISIBLE"}, heap_index |-> 0]>>,
     memory_heaps |-> <<16>>]

NewSmart(props, arena_chunk_size) ==
    SmartNew(props.memory_types, props.memory_heaps, arena_chunk_size,
             BlocksPerChunk, MinBlockSize, MaxChunkSize)

\* what the client asks for: <<size, alignment>>.  Bump allocation is asked for
\* sizes that leave a chunk's offset odd and for one that exceeds the chunk
ArenaShapes == {<<1, 1>>, <<1, 2>>, <<5, 1>>}

\* sizes around the block size and the chunk size of the ChunkedAllocator
GeneralShapes == {<<1, 1>>, <<1, 8>>, <<5, 1>>, <<9, 1>>}

Request(request, prop, shape, type_mask) ==
    [request |-> request, prop |-> prop, size |-> shape[1], alignment |-> shape[2],
     type_mask |-> type_mask]

\* the shapes asked of the allocator a request is routed to; the client of the
\* smart allocator asks for fewer, its requests also vary in properties
ShapesFor(l, request) ==
    IF l = "smart"
    THEN (IF request = "ShortLived" THEN {<<1, 1>>} ELSE {<<1, 1>>, <<9, 1>>})
    ELSE IF l = "arena" \/ (l = "combined" /\ request = "ShortLived")
    THEN ArenaShapes ELSE GeneralShapes

\* the requests a client of layer l makes, with masks that include and exclude
\* each memory type
Requests(l) ==
    UNION {{Request(t, p, sh, m) :
               p \in (IF l = "smart" THEN {{"DEVICE_LOCAL"}, {"CPU_VISIBLE"}} ELSE {{}}),
               sh \in ShapesFor(l, t),
               m \in (IF l = "smart" THEN {1, 2, 3} ELSE {1, 2})} :
           t \in (IF l \in {"combined", "smart"} THEN {"ShortLived", "General"}
                  ELSE {"General"})}

FifoRequests ==
    {Request("General", {}, sh, 1) : sh \in {<<64, 1>>, <<128, 1>>}}

DrainRequests ==
    {Request("General", {}, sh, 1) : sh \in {<<128, 1>>, <<256, 1>>}}

(***************************************************************************)
(* State.                                                                  *)
(***************************************************************************)
VARIABLES
    layer,    \* which allocator the client owns
    smart,    \* the allocators (GenericSmartAllocator and all it holds)
    device,   \* the device's live memory objects
    live,     \* the blocks the client holds, in allocation order
    status,   \* "run", "panic" (a trap was hit) or "disposed"
    calls,    \* the number of alloc calls the client has made
    scen,     \* progress of the scenario A..H, see ScenNext
    repeat    \* the request of a client that repeats one request, or NoRequest

vars == <<layer, smart, device, live, status, calls, scen, repeat>>

NoRequest == Request("General", {}, <<0, 0>>, 0)

\* progress of the scenario of eight 64-byte blocks A..H allocated, then freed
\* in order: the number of its steps the calls so far have been, -1 once the
\* calls have left it
ScenNext(n, op, rq, ok, idx) ==
    IF n \in 0 .. 7 /\ op = "alloc" /\ ok /\ rq.size = 64 /\ rq.alignment = 1
    THEN n + 1
    ELSE IF n \in 8 .. 15 /\ op = "free" /\ ok /\ idx = 1
    THEN n + 1
    ELSE -1

InitWith(l, props, arena_chunk_size) ==
    /\ layer = l
    /\ smart = NewSmart(props, arena_chunk_size)
    /\ device = [m \in MemIds |-> NoObj]
    /\ live = <<>>
    /\ status = "run"
    /\ calls = 0
    /\ scen = 0
    /\ repeat = NoRequest

Init ==
    \E l \in Layers :
        \E props \in (IF l = "smart" THEN {TwoHeaps, OneHeap} ELSE {TwoHeaps}) :
            InitWith(l, props, ArenaChunkSize)

RemoveAt(seq, i) == SubSeq(seq, 1, i - 1) \o SubSeq(seq, i + 1, Len(seq))

\* a call that traps leaves the state as it was, with status "panic"
AllocCall(rq, devOk, debug) ==
    \E r \in {LayerAlloc(layer, smart, device, rq, devOk, debug)} :
        /\ smart' = (IF r.panic THEN smart ELSE r.self)
        /\ device' = (IF r.panic THEN device ELSE r.dev)
        /\ live' = (IF ~r.panic /\ r.err = "Ok" THEN Append(live, r.block) ELSE live)
        /\ status' = (IF r.panic THEN "panic" ELSE status)
        /\ calls' = calls + 1
        /\ scen' = ScenNext(scen, "alloc", rq, ~r.panic /\ r.err = "Ok", 0)
        /\ UNCHANGED <<layer, repeat>>

FreeCall(i, debug) ==
    \E r \in {LayerFree(layer, smart, device, live[i], debug)} :
        /\ smart' = (IF r.panic THEN smart ELSE r.self)
        /\ device' = (IF r.panic THEN device ELSE r.dev)
        /\ live' = (IF r.panic THEN live ELSE RemoveAt(live, i))
        /\ status' = (IF r.panic THEN "panic" ELSE status)
        /\ scen' = ScenNext(scen, "free", Request("General", {}, <<0, 0>>, 0),
                            ~r.panic, i)
        /\ UNCHANGED <<layer, calls, repeat>>

DisposeCall(debug) ==
    \E r \in {LayerDispose(layer, smart, device, debug)} :
        /\ smart' = (IF r.panic THEN smart ELSE r.self)
        /\ device' = (IF r.panic THEN device ELSE r.dev)
        /\ status' = (IF r.panic THEN "panic"
                      ELSE IF r.err = "Ok" THEN "disposed" ELSE status)
        /\ scen' = -1
        /\ UNCHANGED <<layer, live, calls, repeat>>

Alloc ==
    /\ status = "run"
    /\ Len(live) < MaxLive
    /\ calls < MaxCalls
    /\ \E rq \in Requests(layer), devOk \in BOOLEAN, debug \in BOOLEAN :
           AllocCall(rq, devOk, debug)

Free ==
    /\ status = "run"
    /\ \E i \in 1 .. Len(live), debug \in BOOLEAN : FreeCall(i, debug)

Dispose ==
    /\ status = "run"
    /\ \E debug \in BOOLEAN : DisposeCall(debug)

Next == Alloc \/ Free \/ Dispose

Spec == Init /\ [][Next]_vars

(***************************************************************************)
(* The FIFO arena workload: an ArenaAllocator with chunk_size 256 whose    *)
(* blocks are freed in the order they were allocated.  The client frees    *)
(* what it holds and disposes of the allocator (lib.rs: "Allocators must   *)
(* be disposed using this function").                                      *)
(***************************************************************************)
FifoInit == InitWith("arena", TwoHeaps, FifoChunkSize)

FifoAlloc ==
    /\ status = "run"
    /\ Len(live) < FifoMaxLive
    /\ calls < FifoMaxCalls
    /\ \E rq \in FifoRequests, devOk \in BOOLEAN : AllocCall(rq, devOk, TRUE)

FreeOldest ==
    /\ status = "run"
    /\ live # <<>>
    /\ FreeCall(1, TRUE)

FifoNext == FifoAlloc \/ FreeOldest \/ Dispose

FifoSpec == FifoInit /\ [][FifoNext]_vars

\* The same workload with requests of half a chunk and of a whole chunk,
\* followed to its end: the client goes on freeing what it holds, oldest block
\* first, and disposes of the allocator when it can.
DrainAlloc ==
    /\ status = "run"
    /\ calls < DrainMaxCalls
    /\ \E rq \in DrainRequests, devOk \in BOOLEAN : AllocCall(rq, devOk, TRUE)

DrainNext == DrainAlloc \/ FreeOldest \/ Dispose

FifoFairSpec ==
    FifoInit /\ [][DrainNext]_vars /\ WF_vars(FreeOldest) /\ WF_vars(Dispose)

(***************************************************************************)
(* The balance workload: a smart allocator over two device-local memory    *)
(* types on two heaps of different sizes, asked for the same request again *)
(* and again.                                                              *)
(***************************************************************************)
BalanceHeaps(sizes) ==
    [memory_types |-> <<[properties |-> {"DEVICE_LOCAL"}, heap_index |-> 0],
                        [properties |-> {"DEVICE_LOCAL"}, heap_index |-> 1]>>,
     memory_heaps |-> sizes]

BalanceSizes == {<<8, 16>>, <<16, 8>>, <<8, 32>>, <<11, 32>>}

BalanceRequests ==
    {Request(t, {"DEVICE_LOCAL"}, sh, 3) :
        t \in {"General", "ShortLived"},
        sh \in {<<1, 1>>, <<1, 2>>, <<2, 1>>, <<4, 4>>, <<5, 1>>, <<1, 8>>}}

BalanceInit ==
    \E sizes \in BalanceSizes, rq \in BalanceRequests :
        /\ layer = "smart"
        /\ smart = NewSmart(BalanceHeaps(sizes), ArenaChunkSize)
        /\ device = [m \in MemIds |-> NoObj]
        /\ live = <<>>
        /\ status = "run"
        /\ calls = 0
        /\ scen = -1
        /\ repeat = rq

BalanceAlloc ==
    /\ status = "run"
    /\ calls < BalanceMaxCalls
    /\ \E devOk \in BOOLEAN, debug \in BOOLEAN : AllocCall(repeat, devOk, debug)

BalanceSpec == BalanceInit /\ [][BalanceAlloc]_vars

(***************************************************************************)
(* The factory workload: a client that uses an allocator only through the  *)
(* Factory facade.  live holds the Items it owns.                          *)
(***************************************************************************)
\* the allocators the facade is put over
FactoryLayers == {"root", "combined"}

FactoryInit == \E l \in FactoryLayers : InitWith(l, TwoHeaps, ArenaChunkSize)

\* the buffer sizes asked for, given the requirements the device then reports
BufferSizes(rq) == {1, rq.size}

CreateCall(r) ==
    /\ smart' = (IF r.panic THEN smart ELSE r.self)
    /\ device' = (IF r.panic THEN device ELSE r.dev)
    /\ live' = (IF ~r.panic /\ r.err = FactoryOk THEN Append(live, r.item) ELSE live)
    /\ status' = (IF r.panic THEN "panic" ELSE status)
    /\ calls' = calls + 1
    /\ UNCHANGED <<layer, scen, repeat>>

DestroyCall(r, i) ==
    /\ smart' = (IF r.panic THEN smart ELSE r.self)
    /\ device' = (IF r.panic THEN device ELSE r.dev)
    /\ live' = (IF r.panic THEN live ELSE RemoveAt(live, i))
    /\ status' = (IF r.panic THEN "panic" ELSE status)
    /\ UNCHANGED <<layer, calls, scen, repeat>>

CreateBuffer ==
    /\ status = "run"
    /\ Len(live) < FactoryMaxLive
    /\ calls < FactoryMaxCalls
    /\ \E rq \in Requests(layer), created \in BOOLEAN, bound \in BOOLEAN, devOk \in BOOLEAN, debug \in BOOLEAN :
           \E size \in BufferSizes(rq) :
               \E r \in {FactoryCreateBuffer(layer, smart, device, rq, size, created, bound, devOk, debug)} :
                   CreateCall(r)

CreateImage ==
    /\ status = "run"
    /\ Len(live) < FactoryMaxLive
    /\ calls < FactoryMaxCalls
    /\ \E rq \in Requests(layer), created \in BOOLEAN, bound \in BOOLEAN, devOk \in BOOLEAN, debug \in BOOLEAN :
           \E r \in {FactoryCreateImage(layer, smart, device, rq, created, bound, devOk, debug)} :
               CreateCall(r)

DestroyBuffer ==
    /\ status = "run"
    /\ \E i \in 1 .. Len(live), debug \in BOOLEAN :
           /\ live[i].raw = "buffer"
           /\ \E r \in {FactoryDestroyBuffer(layer, smart, device, live[i], debug)} :
                  DestroyCall(r, i)

DestroyImage ==
    /\ status = "run"
    /\ \E i \in 1 .. Len(live), debug \in BOOLEAN :
           /\ live[i].raw = "image"
           /\ \E r \in {FactoryDestroyImage(layer, smart, device, live[i], debug)} :
                  DestroyCall(r, i)

FactoryNext == CreateBuffer \/ CreateImage \/ DestroyBuffer \/ DestroyImage

FactorySpec == FactoryInit /\ [][FactoryNext]_vars

(***************************************************************************)
(* The alignment workload: an arena of one large chunk that is asked for   *)
(* blocks of every power-of-two alignment up to 16, so that               *)
(* alignment_shift is applied to the bump offsets the requests produce.    *)
(***************************************************************************)
AlignChunkSize == 64

AlignPowers == {1, 2, 4, 8, 16}

AlignRequests ==
    {Request("General", {}, <<size, a>>, 1) : size \in {1, 2, 3}, a \in AlignPowers}

AlignInit == InitWith("arena", TwoHeaps, AlignChunkSize)

AlignAlloc ==
    /\ status = "run"
    /\ calls < AlignMaxCalls
    /\ \E rq \in AlignRequests, devOk \in BOOLEAN : AllocCall(rq, devOk, TRUE)

AlignSpec == AlignInit /\ [][AlignAlloc]_vars

\* every variable has a value of its type
TypeOK ==
    /\ layer \in Layers
    /\ status \in {"run", "panic", "disposed"}
    /\ Len(live) <= FifoMaxLive
    /\ calls \in 0 .. Max(MaxCalls, FifoMaxCalls)
    /\ scen \in -1 .. 16
    /\ repeat \in {NoRequest} \cup BalanceRequests

(***************************************************************************)
(* Properties.  A property of a call is stated in the state the call is    *)
(* made in, over every call the client can make there.                     *)
(***************************************************************************)
Builds == BOOLEAN \X BOOLEAN

\* the outcome of alloc(rq) in the current state
Outcome(rq, devOk, debug) == LayerAlloc(layer, smart, device, rq, devOk, debug)

Succeeded(r) == ~r.panic /\ r.err = "Ok"

NoMemory == [m \in MemIds |-> NoObj]

\* device memory objects alive
Held(dev) == Cardinality({m \in MemIds : dev[m] # NoObj})

\* the allocators of memory type 0, which the layers below Smart use
Type0 == smart.allocators[1].allocator

\* C1: every successful alloc returns a block whose start is a multiple of
\* reqs.alignment and whose size is at least reqs.size, on every allocator and
\* after any sequence of allocs and frees.
AllocIsAligned ==
    status = "run" =>
        \A rq \in Requests(layer), b \in Builds :
            \A r \in {Outcome(rq, b[1], b[2])} :
                Succeeded(r) =>
                    /\ r.block.start % rq.alignment = 0
                    /\ r.block.end - r.block.start >= rq.size

\* C2: any two distinct live blocks of an allocator name different memory
\* objects or have disjoint byte ranges.
NonOverlap ==
    \A i, j \in 1 .. Len(live) :
        i < j => \/ live[i].memory # live[j].memory
                 \/ live[i].end <= live[j].start
                 \/ live[j].end <= live[i].start

\* three live blocks share one memory object
NonOverlapWitness ==
    /\ Len(live) = 3
    /\ live[1].memory = live[2].memory
    /\ live[2].memory = live[3].memory

\* C3: a successful alloc on a single-memory-type allocator (Root, Arena,
\* Chunked, Combined) means the allocator's memory type is in reqs.type_mask; a
\* request whose mask excludes the type yields no block.
AllocHonoursTypeMask ==
    (status = "run" /\ layer # "smart") =>
        \A rq \in Requests(layer), b \in Builds :
            \A r \in {Outcome(rq, b[1], b[2])} :
                Succeeded(r) => ~MaskExcludes(rq.type_mask, Type0.root.id)

\* C4: every block the Smart allocator returns is tagged with a memory type
\* whose bit is set in reqs.type_mask and whose properties contain every
\* required property, whatever the heaps' usage.
SmartFilter ==
    (status = "run" /\ layer = "smart") =>
        \A rq \in Requests(layer), b \in Builds :
            \A r \in {Outcome(rq, b[1], b[2])} :
                Succeeded(r) =>
                    /\ r.block.ty \in 0 .. Len(smart.allocators) - 1
                    /\ BitAnd(Shl1(r.block.ty), rq.type_mask) # 0
                    /\ rq.prop \subseteq
                           smart.allocators[r.block.ty + 1].memory_type.properties

\* the heap of type 0 is less used than the heap of type 1, and a request that
\* type 0 does not pass is served by type 1
SmartFilterWitness ==
    /\ status = "run" /\ layer = "smart"
    /\ smart.heaps[1].used = 0
    /\ smart.heaps[Len(smart.heaps)].used > 0
    /\ \E rq \in Requests(layer) :
           \E r \in {Outcome(rq, TRUE, TRUE)} :
               /\ Succeeded(r) /\ r.block.ty = 1
               /\ ~(rq.prop \subseteq smart.allocators[1].memory_type.properties)

\* C5: a successful alloc immediately followed by free of the returned block
\* leaves is_used() as it was before the pair, on every allocator.
RoundTrip ==
    status = "run" =>
        \A rq \in Requests(layer), b \in Builds :
            \A r \in {Outcome(rq, b[1], b[2])} :
                Succeeded(r) =>
                    \A f \in {LayerFree(layer, r.self, r.dev, r.block, b[2])} :
                        /\ ~f.panic
                        /\ LayerIsUsed(layer, f.self) = LayerIsUsed(layer, smart)

\* an allocator not in use, after earlier calls, that an alloc puts in use
RoundTripWitness ==
    /\ status = "run" /\ calls >= 2
    /\ ~LayerIsUsed(layer, smart)
    /\ \E rq \in Requests(layer) :
           \E r \in {Outcome(rq, TRUE, TRUE)} :
               Succeeded(r) /\ LayerIsUsed(layer, r.self)

\* C6: once every allocated block has been freed, dispose() returns Ok without
\* a panic and every device memory object obtained through the allocator has
\* been freed (the RootAllocator's used is 0).
DisposeWhenDrained ==
    (status = "run" /\ live = <<>>) =>
        \A debug \in BOOLEAN :
            \A d \in {LayerDispose(layer, smart, device, debug)} :
                /\ ~d.panic
                /\ d.err = "Ok"
                /\ d.dev = NoMemory
                /\ \A i \in 1 .. Len(d.self.allocators) :
                       d.self.allocators[i].allocator.root.used = 0

\* every block is freed and the allocator still holds device memory to return
DisposeWhenDrainedWitness ==
    /\ status = "run" /\ live = <<>> /\ calls >= 2
    /\ Held(device) >= 2

\* C7: with at least one live block dispose() returns Err(self): nothing is
\* freed on the device and the allocator is as it was.
DisposeWhenInUse ==
    (status = "run" /\ live # <<>>) =>
        \A debug \in BOOLEAN :
            \A d \in {LayerDispose(layer, smart, device, debug)} :
                /\ ~d.panic
                /\ d.err = "StillInUse"
                /\ d.self = smart
                /\ d.dev = device

\* blocks are live after others were freed
DisposeWhenInUseWitness ==
    /\ status = "run" /\ live # <<>> /\ calls > Len(live)
    /\ Held(device) >= 1

\* chunks of the arena, hot or in the FIFO, whose blocks have all been freed
DrainedChunks(arena) ==
    {arena.nodes[i].block.memory :
        i \in {j \in 1 .. Len(arena.nodes) : ~ArenaNodeIsUsed(arena.nodes[j])}}
    \cup (IF arena.hot # NoNode /\ ~ArenaNodeIsUsed(arena.hot)
          THEN {arena.hot.block.memory} ELSE {})

ArenaScenarioAsStated ==
    /\ scen = 12 => Held(device) = 1
    /\ scen = 16 => (Held(device) = 0 /\ ~ArenaIsUsed(Type0.arenas))

\* C9: with chunk_size 256 and eight 64-byte blocks A..H allocated and freed in
\* order, the arena holds two chunks after the allocations; both are still held
\* once A..D are freed (the drained chunk became the hot one); once H is freed
\* one chunk has been returned, one drained chunk stays with the arena until
\* dispose, and is_used() is false.
ArenaScenario ==
    /\ scen = 8 => Held(device) = 2
    /\ scen = 12 => (/\ Held(device) = 2
                     /\ Type0.arenas.freed = 1
                     /\ ~ArenaNodeIsUsed(Type0.arenas.hot))
    /\ scen = 16 => (/\ Held(device) = 1
                     /\ Type0.arenas.freed = 2
                     /\ Type0.arenas.hot # NoNode
                     /\ ~ArenaIsUsed(Type0.arenas))

\* A..H have been allocated and freed in order
ArenaScenarioWitness == scen = 16 /\ live = <<>> /\ status = "run"

\* blocks of size class i (from 0) in the client's hands
LiveIn(ca, i) ==
    Cardinality({j \in 1 .. Len(live) :
                    /\ live[j].kind = "Chunked"
                    /\ live[j].end - live[j].start = ChunkedBlockSize(ca, i)})

\* the least n with n * d >= a
CeilDiv(a, d) == (a + d - 1) \div d

\* C10 as stated: the number of chunks held in size class i equals
\* ceil(live_blocks_in_i / blocks_per_chunk).
ChunkedNoWasteAsStated ==
    (layer = "chunked" /\ status = "run") =>
        \A i \in 1 .. Len(Type0.chunks.nodes) :
            Len(Type0.chunks.nodes[i].chunks) =
                CeilDiv(LiveIn(Type0.chunks, i - 1),
                        ChunkedNodeBlocksPerChunk(Type0.chunks.nodes[i]))

\* C10: the chunks held in size class i are never fewer than
\* ceil(live_blocks_in_i / slots per chunk), and every slot of every chunk is
\* either live or on the free list (chunks are kept until dispose).
ChunkedNoWaste ==
    (layer = "chunked" /\ status = "run") =>
        \A i \in 1 .. Len(Type0.chunks.nodes) :
            LET node == Type0.chunks.nodes[i]
                n == LiveIn(Type0.chunks, i - 1)
            IN /\ Len(node.chunks) >= CeilDiv(n, ChunkedNodeBlocksPerChunk(node))
               /\ ChunkedNodeCount(node) = n + Len(node.free)

\* a size class keeps a chunk none of whose slots is live
ChunkedNoWasteWitness ==
    /\ layer = "chunked" /\ status = "run"
    /\ \E i \in 1 .. Len(Type0.chunks.nodes) :
           /\ Len(Type0.chunks.nodes[i].chunks) >= 1
           /\ LiveIn(Type0.chunks, i - 1) = 0

\* s is a prefix of t
IsPrefix(s, t) == Len(s) <= Len(t) /\ SubSeq(t, 1, Len(s)) = s

\* the size classes of the ChunkedAllocator of memory type k (from 1)
ChunkedNodes(s, k) == s.allocators[k].allocator.chunks.nodes

\* C11: until dispose() succeeds, no call removes a size class, removes or
\* moves a chunk of a size class, or returns a chunk's memory to the device:
\* the list of chunks of each size class only grows.
ChunksOnlyGrow ==
    [][status' # "disposed" =>
          \A k \in 1 .. Len(smart.allocators) :
              /\ Len(ChunkedNodes(smart, k)) <= Len(ChunkedNodes(smart', k))
              /\ \A i \in 1 .. Len(ChunkedNodes(smart, k)) :
                     /\ IsPrefix(ChunkedNodes(smart, k)[i].chunks,
                                 ChunkedNodes(smart', k)[i].chunks)
                     /\ \A j \in 1 .. Len(ChunkedNodes(smart, k)[i].chunks) :
                            device'[ChunkedNodes(smart, k)[i].chunks[j].memory] # NoObj]_vars

\* a size class holds two chunks and all their slots are free
ChunksOnlyGrowWitness ==
    /\ layer = "chunked" /\ status = "run"
    /\ \E i \in 1 .. Len(Type0.chunks.nodes) :
           /\ Len(Type0.chunks.nodes[i].chunks) >= 2
           /\ Len(Type0.chunks.nodes[i].free) = ChunkedNodeCount(Type0.chunks.nodes[i])

\* C13: in every reachable state of the Smart allocator every heap has
\* used <= size, so that Heap::available never underflows.
HeapBound ==
    layer = "smart" => \A h \in 1 .. Len(smart.heaps) :
                           smart.heaps[h].used <= smart.heaps[h].size

\* memory type k (from 0) has its bit in the mask and the required properties
Passes(k, rq) ==
    /\ BitAnd(Shl1(k), rq.type_mask) # 0
    /\ rq.prop \subseteq smart.allocators[k + 1].memory_type.properties

TypeIndices == 0 .. Len(smart.allocators) - 1

HeapOf(k) == smart.heaps[smart.allocators[k + 1].memory_type.heap_index + 1]

\* C14: Smart alloc returns NoCompatibleMemoryType exactly when no memory type
\* has both its bit in reqs.type_mask and the required properties, and then
\* neither an allocator, nor a heap counter, nor the device has changed.
NoCompatibleType ==
    (status = "run" /\ layer = "smart") =>
        \A rq \in Requests(layer), b \in Builds :
            \A r \in {Outcome(rq, b[1], b[2])} :
                /\ (\A k \in TypeIndices : ~Passes(k, rq)) =>
                       /\ ~r.panic /\ r.err = "NoCompatibleMemoryType"
                       /\ r.self = smart /\ r.dev = device
                /\ (~r.panic /\ r.err = "NoCompatibleMemoryType") =>
                       \A k \in TypeIndices : ~Passes(k, rq)

\* blocks are live on both memory types and a request asks for a property
\* that no type of its mask has
NoCompatibleTypeWitness ==
    /\ status = "run" /\ layer = "smart"
    /\ \A h \in 1 .. Len(smart.heaps) : smart.heaps[h].used > 0
    /\ \E rq \in Requests(layer) :
           /\ \E k \in TypeIndices : BitAnd(Shl1(k), rq.type_mask) # 0
           /\ \A k \in TypeIndices : ~Passes(k, rq)
           /\ Outcome(rq, TRUE, TRUE).err = "NoCompatibleMemoryType"

\* C15: when some memory type passes the mask/property filter and every such
\* type's heap has size - used < reqs.size + reqs.alignment, Smart alloc
\* returns OutOfMemory and has called no delegate; when a passing type's heap
\* has size - used >= reqs.size + reqs.alignment and the device can serve, the
\* type is not skipped and the allocation succeeds.
HeapAvailability ==
    (status = "run" /\ layer = "smart") =>
        \A rq \in Requests(layer), b \in Builds :
            \A r \in {Outcome(rq, b[1], b[2])} :
                /\ ( /\ \E k \in TypeIndices : Passes(k, rq)
                     /\ \A k \in TypeIndices :
                            Passes(k, rq) =>
                                HeapOf(k).size - HeapOf(k).used < rq.size + rq.alignment ) =>
                       /\ ~r.panic /\ r.err = "OutOfMemory"
                       /\ r.self = smart /\ r.dev = device
                /\ ( /\ \E k \in TypeIndices :
                            /\ Passes(k, rq)
                            /\ HeapOf(k).size - HeapOf(k).used >= rq.size + rq.alignment
                     /\ Held(device) = 0 /\ b[1] /\ ~r.panic ) =>
                       Succeeded(r)

ServedBy(c, c2, size, kind) ==
    CASE kind = "Arena" -> /\ c2.arenas # c.arenas
                           /\ c2.chunks = c.chunks /\ c2.root_used = c.root_used
      [] kind = "Chunked" -> /\ c2.chunks # c.chunks
                             /\ c2.arenas = c.arenas /\ c2.root_used = c.root_used
      [] OTHER -> /\ kind = "Root" /\ c2.root_used = c.root_used + size
                  /\ c2.arenas = c.arenas /\ c2.chunks = c.chunks

\* the leaf a free of the Combined allocator has returned the block to
ReturnedTo(c, c2, size, kind) ==
    CASE kind = "Arena" -> /\ c2.arenas # c.arenas
                           /\ c2.chunks = c.chunks /\ c2.root_used = c.root_used
      [] kind = "Chunked" -> /\ c2.chunks # c.chunks
                             /\ c2.arenas = c.arenas /\ c2.root_used = c.root_used
      [] OTHER -> /\ kind = "Root" /\ c2.root_used = c.root_used - size
                  /\ c2.arenas = c.arenas /\ c2.chunks = c.chunks

\* routing of the Combined allocator with the size above which a General
\* request goes to Root
RoutesAt(threshold) ==
    (status = "run" /\ layer = "combined") =>
        /\ \A rq \in Requests(layer), b \in Builds :
               \A r \in {Outcome(rq, b[1], b[2])} :
                   Succeeded(r) =>
                       /\ r.block.kind =
                              (IF rq.request = "ShortLived" THEN "Arena"
                               ELSE IF rq.size <= threshold THEN "Chunked" ELSE "Root")
                       /\ ServedBy(Type0, r.self.allocators[1].allocator,
                                   r.block.end - r.block.start, r.block.kind)
        /\ \A i \in 1 .. Len(live), debug \in BOOLEAN :
               \A f \in {LayerFree(layer, smart, device, live[i], debug)} :
                   ~f.panic =>
                       ReturnedTo(Type0, f.self.allocators[1].allocator,
                                  live[i].end - live[i].start, live[i].kind)

\* C17 as stated: ShortLived goes to Arena; General goes to Chunked when
\* size <= max_chunk_size and to Root when size > max_chunk_size; the tag names
\* the leaf and free returns the block to that leaf.
RoutingAsStated == RoutesAt(Type0.chunks.max_chunk_size)

\* C17: ShortLived goes to Arena; General goes to Chunked when
\* size <= max_chunk_size / 2 and to Root when size > max_chunk_size / 2; the
\* tag names the leaf and free returns the block to that leaf.
Routing == RoutesAt(Type0.chunks.max_chunk_size \div 2)

\* a block of each leaf is live, the Root one no larger than max_chunk_size
RoutingWitness ==
    /\ status = "run" /\ layer = "combined" /\ Len(live) = 3
    /\ {live[i].kind : i \in 1 .. 3} = {"Arena", "Chunked", "Root"}
    /\ \E i \in 1 .. 3 : /\ live[i].kind = "Root"
                         /\ live[i].end - live[i].start <= Type0.chunks.max_chunk_size

\* used/size of the two heaps differ by no more than n bytes of the smaller
Balanced(heaps, n) ==
    \A d \in {heaps[1].used * heaps[2].size - heaps[2].used * heaps[1].size} :
        Min(heaps[1].size, heaps[2].size) * (IF d < 0 THEN -d ELSE d)
            <= n * heaps[1].size * heaps[2].size

\* C12 as stated: after each allocation of a sequence of equal requests that
\* both memory types satisfy, on two initially empty heaps of different sizes,
\* used/size of the two heaps differ by no more than the request size divided
\* by the smaller heap size.
HeapBalanceAsStated ==
    (repeat # NoRequest /\ status = "run" /\ live # <<>>) =>
        Balanced(smart.heaps, repeat.size)

\* size - used of the heap covers the request as the filter asks
HasRoom(heap, rq) == heap.size - heap.used >= rq.size + rq.alignment

\* the size of the largest of the blocks
LargestBlock(blocks) ==
    CHOOSE n \in {b.end - b.start : b \in blocks} :
        \A b \in blocks : b.end - b.start <= n

\* C12: after each allocation of a sequence of equal requests that both
\* memory types satisfy, on two initially empty heaps of different sizes, made
\* while both heaps have size - used >= reqs.size + reqs.alignment, used/size
\* of the two heaps differ by no more than the size of the largest block
\* returned so far divided by the smaller heap size.
HeapBalance ==
    (repeat # NoRequest /\ status = "run"
        /\ HasRoom(smart.heaps[1], repeat) /\ HasRoom(smart.heaps[2], repeat)) =>
        \A b \in Builds :
            \A r \in {Outcome(repeat, b[1], b[2])} :
                Succeeded(r) =>
                    Balanced(r.self.heaps,
                             LargestBlock({live[i] : i \in 1 .. Len(live)}
                                              \cup {r.block}))

\* after four allocations both heaps are in use, no more than a block apart,
\* and both have room for the fifth
HeapBalanceWitness ==
    /\ repeat # NoRequest /\ status = "run" /\ Len(live) >= 4
    /\ smart.heaps[1].used > 0 /\ smart.heaps[2].used > 0
    /\ HasRoom(smart.heaps[1], repeat) /\ HasRoom(smart.heaps[2], repeat)
    /\ Succeeded(Outcome(repeat, TRUE, TRUE))

\* the smallest min_block_size * 2^i, i >= 0, that is >= n
ClassBlockSize(ca, n) ==
    CHOOSE b \in {ca.min_block_size * 2 ^ i : i \in 0 .. 12} :
        /\ b >= n
        /\ \A c \in {ca.min_block_size * 2 ^ i : i \in 0 .. 12} : c >= n => b <= c

\* requests of every size up to max_chunk_size, at every alignment up to it
ClassRequests ==
    {Request("General", {}, <<size, alignment>>, 1) :
        size \in 1 .. MaxChunkSize, alignment \in {a \in {1, 2, 4, 8, 16} : a <= MaxChunkSize}}

\* the ChunkedAllocator of the example: blocks_per_chunk 8, min_block_size 16,
\* max_chunk_size 4096
ExampleChunked == ChunkedNew(8, 16, 4096, 0)

\* pick_node names the smallest class that holds n, for every n of the example
ExamplePicks ==
    \A n \in 1 .. ExampleChunked.max_chunk_size :
        ChunkedBlockSize(ExampleChunked, PickNode(ExampleChunked, n)) =
            ClassBlockSize(ExampleChunked, n)

\* C18: for every request with 1 <= max(size, alignment) <= max_chunk_size the
\* block the ChunkedAllocator returns has the size of the smallest class
\* min_block_size * 2^i that is >= both size and alignment; so has the class
\* pick_node names, for every size of the example configuration.
ClassPicking ==
    /\ (status = "run" /\ layer = "chunked") =>
           \A rq \in ClassRequests, b \in Builds :
               \A r \in {Outcome(rq, b[1], b[2])} :
                   Succeeded(r) =>
                       r.block.end - r.block.start =
                           ClassBlockSize(Type0.chunks, Max(rq.size, rq.alignment))
    /\ ExamplePicks

\* blocks of two classes are live, and a request whose size equals a class's
\* block size is served with a block of that class
ClassPickingWitness ==
    /\ status = "run" /\ layer = "chunked"
    /\ \E i, j \in 1 .. Len(live) :
           live[i].end - live[i].start < live[j].end - live[j].start
    /\ \E rq \in ClassRequests :
           /\ rq.size = Type0.chunks.min_block_size
           /\ Succeeded(Outcome(rq, TRUE, TRUE))
           /\ Outcome(rq, TRUE, TRUE).block.end - Outcome(rq, TRUE, TRUE).block.start
                  = rq.size

\* requests whose size or alignment exceeds max_chunk_size
OversizeRequests ==
    {Request("General", {}, sh, m) :
        sh \in {<<MaxChunkSize + 1, 1>>, <<1, 2 * MaxChunkSize>>,
                <<MaxChunkSize + 1, MaxChunkSize>>, <<2 * MaxChunkSize, 2 * MaxChunkSize>>},
        m \in {1, 2}}

\* C19: ChunkedAllocator::alloc with reqs.size > max_chunk_size or
\* reqs.alignment > max_chunk_size returns OutOfMemory and leaves the
\* allocator (size classes, chunk lists, free lists), its owner and the device
\* as they were.
OversizeRejected ==
    (status = "run" /\ layer = "chunked") =>
        \A rq \in OversizeRequests, b \in Builds :
            \A r \in {Outcome(rq, b[1], b[2])} :
                /\ ~r.panic /\ r.err = "OutOfMemory"
                /\ r.self = smart /\ r.dev = device

\* the largest size class has a free slot and the device has room, and an
\* oversize request is still refused
OversizeRejectedWitness ==
    /\ status = "run" /\ layer = "chunked"
    /\ Type0.chunks.nodes # <<>>
    /\ Type0.chunks.nodes[Len(Type0.chunks.nodes)].free # <<>>
    /\ ChunkedBlockSize(Type0.chunks, Len(Type0.chunks.nodes) - 1) = MaxChunkSize
    /\ Held(device) < MaxMem
    /\ \A rq \in OversizeRequests : Outcome(rq, TRUE, TRUE).err = "OutOfMemory"

\* the outcome of a Factory create call in the current state, with the outcome
\* of the alloc it makes
CreateOutcomes(rq, created, bound, devOk, debug) ==
    {[a |-> a, r |-> r] :
        a \in {Outcome(rq, devOk, debug)},
        r \in {FactoryCreateBuffer(layer, smart, device, rq, rq.size, created, bound, devOk, debug),
               FactoryCreateImage(layer, smart, device, rq, created, bound, devOk, debug)}}

\* C21: when the device fails buffer/image creation or fails to bind memory,
\* create_buffer / create_image return that failure as an error value, without
\* a panic, and a failure of the memory allocation is returned as the memory
\* error.
FactoryErrors ==
    status = "run" =>
        \A rq \in Requests(layer), created \in BOOLEAN, bound \in BOOLEAN, devOk \in BOOLEAN, debug \in BOOLEAN :
            \A o \in CreateOutcomes(rq, created, bound, devOk, debug) :
                /\ ~created =>
                       /\ ~o.r.panic
                       /\ o.r.err \in {FromBufferCreationError, FromImageCreationError}
                /\ created /\ ~o.a.panic /\ o.a.err # "Ok" =>
                       ~o.r.panic /\ o.r.err = FromMemoryError(o.a.err)
                /\ created /\ Succeeded(o.a) /\ ~bound =>
                       ~o.r.panic /\ o.r.err # FactoryOk

\* the leaf the Combined allocator c asks for rq, and what the leaf answers
LeafOutcome(c, rq, devOk, debug) ==
    IF rq.request = "ShortLived"
    THEN Only({[err |-> a.err, panic |-> a.panic] :
               a \in {ArenaAlloc(c.arenas, c.root, device, Reqs(rq), devOk)}})
    ELSE IF rq.size > c.chunks.max_chunk_size \div 2
    THEN Only({[err |-> a.err, panic |-> a.panic] :
               a \in {RootAlloc(c.root, device, Reqs(rq), devOk)}})
    ELSE Only({[err |-> a.err, panic |-> a.panic] :
               a \in {ChunkedAlloc(c.chunks, c.root, device, Reqs(rq), devOk, debug)}})

\* the memory types whose allocator the call is delegated to: type 0 below the
\* Smart allocator; for the Smart allocator the passing type of least usage
\* and, among equals, of lowest index
Delegates(rq) ==
    IF layer # "smart" THEN {0}
    ELSE LET ok == {k \in TypeIndices :
                        /\ Passes(k, rq)
                        /\ HeapAvailable(HeapOf(k)) >= rq.size + rq.alignment}
         IN {k \in ok :
                \A j \in ok :
                    \/ HeapOf(k).used * HeapOf(j).size < HeapOf(j).used * HeapOf(k).size
                    \/ /\ HeapOf(k).used * HeapOf(j).size = HeapOf(j).used * HeapOf(k).size
                       /\ k <= j}

\* C22: when the leaf or delegate allocator chosen for a request fails, that
\* failure is what the caller gets and no other route has been tried: Smart
\* does not go on to another memory type, Combined does not fall back to Root,
\* and the failed call leaves Smart's heap counters, every Combined allocation
\* count and the device as they were.
NoFallback ==
    (status = "run" /\ layer \in {"combined", "smart"}) =>
        \A rq \in Requests(layer), b \in Builds :
            \A r \in {Outcome(rq, b[1], b[2])} :
                \A k \in Delegates(rq) :
                    \A leaf \in {LeafOutcome(smart.allocators[k + 1].allocator, rq, b[1], b[2])} :
                        (~r.panic /\ ~leaf.panic /\ leaf.err # "Ok") =>
                            /\ r.err = leaf.err
                            /\ r.dev = device
                            /\ r.self.heaps = smart.heaps
                            /\ \A j \in TypeIndices :
                                   /\ r.self.allocators[j + 1].allocator.allocations
                                          = smart.allocators[j + 1].allocator.allocations
                                   /\ r.self.allocators[j + 1].allocator.root_used
                                          = smart.allocators[j + 1].allocator.root_used
                                   /\ r.self.allocators[j + 1].allocator.root
                                          = smart.allocators[j + 1].allocator.root

\* blocks are live, two memory types pass both filters of a request, and the
\* device refuses the allocation the chosen type's allocator asks for
NoFallbackWitness ==
    /\ status = "run" /\ layer = "smart" /\ Len(live) > 0
    /\ \E rq \in Requests(layer) :
           /\ Delegates(rq) = {1}
           /\ \A k \in TypeIndices :
                  /\ Passes(k, rq)
                  /\ HeapAvailable(HeapOf(k)) >= rq.size + rq.alignment
           /\ ~Outcome(rq, FALSE, TRUE).panic
           /\ Outcome(rq, FALSE, TRUE).err = "OutOfMemory"
           /\ Succeeded(Outcome(rq, TRUE, TRUE))

\* the arena allocator a live block of kind Arena came from
ArenaOf(b) == smart.allocators[b.ty + 1].allocator.arenas

\* the node of arena at FIFO position index, the hot node past the FIFO's end
NodeAt(arena, index) ==
    IF index = Len(arena.nodes) THEN arena.hot ELSE arena.nodes[index + 1]

\* the live blocks of kind Arena
LiveArena == {i \in 1 .. Len(live) : live[i].kind = "Arena"}

\* C23: every live arena block's tag satisfies
\* freed <= tag <= freed + nodes.len(), the node at FIFO position tag - freed
\* (the hot node when that equals nodes.len()) is the node whose chunk
\* contains the block, and so free of a live block reaches neither
\* unreachable!() nor a failing contains-assert in ArenaNode::free.
TagValid ==
    status = "run" =>
        \A i \in LiveArena :
            \A arena \in {ArenaOf(live[i])} :
                /\ arena.freed <= live[i].tag
                /\ live[i].tag <= arena.freed + Len(arena.nodes)
                /\ live[i].tag = arena.freed + Len(arena.nodes) => arena.hot # NoNode
                /\ BlockContains(NodeAt(arena, live[i].tag - arena.freed).block, Raw(live[i]))
                /\ ~ArenaFree(arena, smart.allocators[live[i].ty + 1].allocator.root,
                              device, Raw(live[i]), live[i].tag).panic

\* a drained front node has been swapped with the hot node: a live block sits
\* in the FIFO, another in the hot node that was in the FIFO before
TagValidWitness ==
    /\ status = "run" /\ layer = "arena"
    /\ Type0.arenas.freed > 0
    /\ \E i \in LiveArena : live[i].tag = Type0.arenas.freed
    /\ \E i \in LiveArena : live[i].tag = Type0.arenas.freed + Len(Type0.arenas.nodes)
    /\ Len(Type0.arenas.nodes) > 0

\* the arena allocators of the state: one per memory type
Arenas == {smart.allocators[k + 1].allocator.arenas : k \in TypeIndices}

\* the live blocks carved from node of the arena of memory type id
LiveInNode(id, node) ==
    {i \in LiveArena : live[i].ty = id /\ BlockContains(node.block, Raw(live[i]))}

\* C24 as stated: between operations every node in the arena's FIFO has
\* freed_bytes < used, i.e. still has at least one live block.
FifoNodesUsedAsStated ==
    status = "run" =>
        \A arena \in Arenas :
            \A n \in 1 .. Len(arena.nodes) : ArenaNodeIsUsed(arena.nodes[n])

\* C24: between operations the node at the front of the arena's FIFO has
\* freed_bytes < used, and a node of the FIFO has freed_bytes < used exactly
\* when it still has at least one live block; a node behind the front can be
\* fully drained.
FifoFrontUsed ==
    status = "run" =>
        \A arena \in Arenas :
            /\ arena.nodes # <<>> => Head(arena.nodes).freed < Head(arena.nodes).used
            /\ \A n \in 1 .. Len(arena.nodes) :
                   /\ arena.nodes[n].freed <= arena.nodes[n].used
                   /\ arena.nodes[n].freed < arena.nodes[n].used
                          <=> LiveInNode(arena.id, arena.nodes[n]) # {}

\* the second node of the FIFO is fully drained behind a front node in use
FifoFrontUsedWitness ==
    /\ status = "run" /\ layer = "arena"
    /\ Len(Type0.arenas.nodes) >= 2
    /\ ~ArenaNodeIsUsed(Type0.arenas.nodes[2])
    /\ LiveInNode(0, Type0.arenas.nodes[1]) # {}

\* C25 as stated: between operations the hot node, if present, either contains
\* at least one live block or was created by the most recent operation, no
\* block freed from it yet and not swapped in from the FIFO.  (Only alloc
\* creates a node, and it returns a block of it, so a node created by the most
\* recent operation contains a live block as well.)
HotNodeUsedAsStated ==
    status = "run" =>
        \A arena \in Arenas :
            arena.hot # NoNode => LiveInNode(arena.id, arena.hot) # {}

\* C25: between operations the hot node, if present, either contains at least
\* one live block or is fully drained (freed_bytes == used: its blocks were
\* freed, or cleanup swapped it in from the FIFO); it has freed_bytes < used
\* exactly when it contains a live block, and it is absent only while the
\* arena has never allocated a chunk.
HotNodeAccount ==
    status = "run" =>
        \A arena \in Arenas :
            /\ arena.hot = NoNode => arena.nodes = <<>> /\ arena.freed = 0
            /\ arena.hot # NoNode =>
                   /\ arena.hot.freed <= arena.hot.used
                   /\ arena.hot.freed < arena.hot.used
                          <=> LiveInNode(arena.id, arena.hot) # {}

\* the hot node is a drained node that cleanup swapped in from the FIFO, where
\* the former hot node now holds a live block
HotNodeAccountWitness ==
    /\ status = "run" /\ layer = "arena"
    /\ Type0.arenas.freed > 0
    /\ Type0.arenas.hot # NoNode /\ ~ArenaNodeIsUsed(Type0.arenas.hot)
    /\ Type0.arenas.hot.used > 0
    /\ Len(Type0.arenas.nodes) = 1
    /\ LiveInNode(0, Type0.arenas.nodes[1]) # {}

\* the tag an arena issues: the logical index of its hot node
HotIndex(arena) == arena.freed + Len(arena.nodes)

\* C26 as stated: a tag value that has been issued for blocks of one arena
\* node is never later issued for blocks of a different node.  A tag is the
\* index of the hot node at the time, so this says that the index never
\* decreases and that it has increased whenever a hot node that has issued
\* blocks is replaced by another node.
TagsNeverReusedAsStated ==
    [][status' = "run" =>
          \A k \in TypeIndices :
              /\ HotIndex(smart.allocators[k + 1].allocator.arenas')
                     >= HotIndex(smart.allocators[k + 1].allocator.arenas)
              /\ (/\ smart.allocators[k + 1].allocator.arenas.hot.used > 0
                  /\ smart.allocators[k + 1].allocator.arenas.hot.block
                         # smart.allocators[k + 1].allocator.arenas'.hot.block) =>
                     HotIndex(smart.allocators[k + 1].allocator.arenas')
                         > HotIndex(smart.allocators[k + 1].allocator.arenas)]_vars

\* C26: a tag value that a live block of one arena node holds is never issued
\* for blocks of a different node, and the tag an arena issues never
\* decreases; a tag is issued for a second node only when the hot node it was
\* issued for has been returned to the owner fully drained.
TagsNotShared ==
    [][status' = "run" =>
          /\ \A k \in TypeIndices :
                 HotIndex(smart.allocators[k + 1].allocator.arenas')
                     >= HotIndex(smart.allocators[k + 1].allocator.arenas)
          /\ \A i \in LiveArena' :
                 \A j \in LiveArena :
                     (live'[i].ty = live[j].ty /\ live'[i].tag = live[j].tag) =>
                         live'[i].memory = live[j].memory]_vars

\* the arena's first hot node was returned drained and the second node, whose
\* chunk is the device's second memory object, has issued the tag 0 again:
\* no node has been popped or pushed
TagsNotSharedWitness ==
    /\ status = "run" /\ layer = "arena"
    /\ Type0.arenas.freed = 0 /\ Type0.arenas.nodes = <<>>
    /\ Type0.arenas.hot.block.memory = 2
    /\ device[1] = NoObj
    /\ \E i \in LiveArena : live[i].tag = 0 /\ live[i].memory = 2

\* free of the live block i credits the front node of its arena's FIFO and
\* leaves it fully drained
DrainsFront(i) ==
    \E arena \in {ArenaOf(live[i])} :
        /\ arena.nodes # <<>>
        /\ live[i].tag = arena.freed
        /\ Head(arena.nodes).freed + BlockSize(Raw(live[i])) = Head(arena.nodes).used

\* the outcome of ArenaAllocator::free of the live block i, with the arena it
\* is called on
FreeOutcomes(i) ==
    {[arena |-> ArenaOf(live[i]), f |-> f] :
        f \in {ArenaFree(ArenaOf(live[i]), smart.allocators[live[i].ty + 1].allocator.root,
                         device, Raw(live[i]), live[i].tag)}}

\* C27 as stated: whenever a free leaves the front node of the FIFO fully
\* drained, that same free pops it and returns one chunk to the owner, and
\* freed is incremented by exactly one per popped node.
RotationAsStated ==
    status = "run" =>
        \A i \in LiveArena :
            DrainsFront(i) =>
                \A o \in FreeOutcomes(i) :
                    /\ ~o.f.panic
                    /\ o.f.self.freed > o.arena.freed
                    /\ Len(o.f.self.nodes) = 0 \/ ArenaNodeIsUsed(Head(o.f.self.nodes))
                    /\ Held(device) - Held(o.f.dev) = o.f.self.freed - o.arena.freed

\* C27: whenever a free leaves the front node of the FIFO fully drained, that
\* same free pops it and every drained node behind it up to the first node in
\* use, and freed is incremented by exactly one per popped node; when the hot
\* node is in use the first popped node becomes the hot node, the former hot
\* node goes to the back of the FIFO and no chunk is returned for that pop;
\* every other popped node's chunk is returned to the owner.
Rotation ==
    status = "run" =>
        \A i \in LiveArena :
            DrainsFront(i) =>
                \A o \in FreeOutcomes(i) :
                    \A pops \in {o.f.self.freed - o.arena.freed} :
                        /\ ~o.f.panic
                        /\ pops >= 1 /\ pops <= Len(o.arena.nodes)
                        /\ \A n \in 2 .. pops : ~ArenaNodeIsUsed(o.arena.nodes[n])
                        /\ pops < Len(o.arena.nodes) =>
                               ArenaNodeIsUsed(o.arena.nodes[pops + 1])
                        /\ IF ArenaNodeIsUsed(o.arena.hot)
                           THEN /\ o.f.self.nodes
                                       = Append(SubSeq(o.arena.nodes, pops + 1,
                                                       Len(o.arena.nodes)), o.arena.hot)
                                /\ o.f.self.hot.block = Head(o.arena.nodes).block
                                /\ ~ArenaNodeIsUsed(o.f.self.hot)
                                /\ Held(device) - Held(o.f.dev) = pops - 1
                           ELSE /\ o.f.self.nodes
                                       = SubSeq(o.arena.nodes, pops + 1, Len(o.arena.nodes))
                                /\ o.f.self.hot = o.arena.hot
                                /\ Held(device) - Held(o.f.dev) = pops

\* a free drains the front node while the hot node is in use and the second
\* node of the FIFO is already drained: two pops, one chunk returned
RotationWitness ==
    /\ status = "run" /\ layer = "arena"
    /\ Len(Type0.arenas.nodes) >= 2
    /\ ~ArenaNodeIsUsed(Type0.arenas.nodes[2])
    /\ ArenaNodeIsUsed(Type0.arenas.hot)
    /\ \E i \in LiveArena :
           /\ DrainsFront(i)
           /\ \A o \in FreeOutcomes(i) :
                  ~o.f.panic /\ o.f.self.freed = Type0.arenas.freed + 2

\* the live blocks of kind Chunked that memory type id's size class node holds
\* in slot block_index of chunk chunk_index
LiveInSlot(id, node, chunk_index, block_index) ==
    {i \in 1 .. Len(live) :
        /\ live[i].kind = "Chunked" /\ live[i].ty = id
        /\ live[i].tag = chunk_index
        /\ live[i].memory = node.chunks[chunk_index + 1].memory
        /\ live[i].start = node.chunks[chunk_index + 1].start + block_index * node.block_size
        /\ live[i].end = live[i].start + node.block_size}

\* the positions of the free list of node that name the slot
FreeAt(node, chunk_index, block_index) ==
    {p \in 1 .. Len(node.free) :
        node.free[p] = [chunk_index |-> chunk_index, block_index |-> block_index]}

\* the live blocks of the size class of node: its blocks have its block size
LiveOfClass(id, node) ==
    {i \in 1 .. Len(live) :
        /\ live[i].kind = "Chunked" /\ live[i].ty = id
        /\ live[i].end - live[i].start = node.block_size}

\* C28: for each size class, every (chunk_index, slot_index) with
\* chunk_index < chunks.len() and slot_index < chunk_size / block_size is
\* either on the free list exactly once or the range of exactly one live
\* block, never both and never neither; the free list and the live blocks
\* name no other slot; and ChunkedNode::is_used() is true exactly when the
\* class has a live block.
SlotConservation ==
    status = "run" =>
        \A k \in TypeIndices :
            \A c \in 1 .. Len(smart.allocators[k + 1].allocator.chunks.nodes) :
                \A node \in {smart.allocators[k + 1].allocator.chunks.nodes[c]} :
                    /\ \A ci \in 0 .. Len(node.chunks) - 1 :
                           \A si \in 0 .. ChunkedNodeBlocksPerChunk(node) - 1 :
                               Cardinality(FreeAt(node, ci, si))
                                   + Cardinality(LiveInSlot(k, node, ci, si)) = 1
                    /\ Len(node.free) + Cardinality(LiveOfClass(k, node))
                           = ChunkedNodeCount(node)
                    /\ ChunkedNodeIsUsed(node) <=> LiveOfClass(k, node) # {}

\* a size class holds two chunks, a freed slot of the first chunk in front of
\* the second chunk's free slot, and two live blocks
SlotConservationWitness ==
    /\ status = "run" /\ layer = "chunked"
    /\ \E c \in 1 .. Len(Type0.chunks.nodes) :
           /\ Len(Type0.chunks.nodes[c].chunks) = 2
           /\ Len(Type0.chunks.nodes[c].free) = 2
           /\ Type0.chunks.nodes[c].free[1].chunk_index = 0
           /\ Type0.chunks.nodes[c].free[2].chunk_index = 1
           /\ Cardinality(LiveOfClass(0, Type0.chunks.nodes[c])) = 2

\* the live blocks of kind Chunked
LiveChunked == {i \in 1 .. Len(live) : live[i].kind = "Chunked"}

\* free of the live block i followed at once by alloc(rq): the outcomes of
\* both calls
FreeThenAlloc(i, rq, devOk, debug) ==
    UNION {{[f |-> f, a |-> a] :
               a \in {LayerAlloc(layer, f.self, f.dev, rq, devOk, debug)}} :
           f \in {LayerFree(layer, smart, device, live[i], debug)}}

\* C29: after free(b) on a Chunked allocator, the next successful alloc that
\* resolves to the same size class returns the memory object, the range and
\* the chunk-index tag of b, and requests no chunk from the owner.
SlotReuse ==
    status = "run" =>
        \A i \in LiveChunked :
            \A rq \in Requests(layer), b \in Builds :
                \A o \in FreeThenAlloc(i, rq, b[1], b[2]) :
                    (/\ ~o.f.panic /\ Succeeded(o.a)
                     /\ o.a.block.kind = "Chunked" /\ o.a.block.ty = live[i].ty
                     /\ o.a.block.end - o.a.block.start = live[i].end - live[i].start) =>
                        /\ o.a.block = live[i]
                        /\ o.a.dev = device

\* a block is live in a size class whose free list holds another slot, which
\* an alloc made instead of the free would return
SlotReuseWitness ==
    /\ status = "run" /\ layer = "chunked"
    /\ \E i \in LiveChunked :
           \E rq \in Requests(layer) :
               /\ Succeeded(Outcome(rq, FALSE, TRUE))
               /\ Outcome(rq, FALSE, TRUE).block.end - Outcome(rq, FALSE, TRUE).block.start
                      = live[i].end - live[i].start
               /\ \A o \in FreeThenAlloc(i, rq, FALSE, TRUE) :
                      Succeeded(o.a) /\ o.a.block # Outcome(rq, FALSE, TRUE).block

\* the requirements asked of the Chunked allocators: the shapes of General
\* requests with the allocator's own type bit
GrowthRequests(id) ==
    {[type_mask |-> Shl1(id), size |-> sh[1], alignment |-> sh[2]] : sh \in GeneralShapes}

\* the size class node an alloc of reqs is served by, as it is before the call;
\* a class the allocator has not created yet is a node without chunks
ClassNode(ca, reqs) ==
    ChunkedGrow(ca, PickNode(ca, Max(reqs.size, reqs.alignment))).nodes[PickNode(ca, Max(reqs.size, reqs.alignment)) + 1]

\* an alloc of reqs on the Chunked allocator of memory type k in the current
\* state: the class index, the class node before and after, and the outcome
Growths(k, reqs, devOk, debug) ==
    UNION {{[index |-> PickNode(ca, Max(reqs.size, reqs.alignment)),
             before |-> ClassNode(ca, reqs),
             after |-> ClassNode(r.self, reqs),
             ca |-> ca, r |-> r] :
               r \in {ChunkedAlloc(ca, smart.allocators[k + 1].allocator.root, device,
                                   reqs, devOk, debug)}} :
           ca \in {smart.allocators[k + 1].allocator.chunks}}

\* the device memory objects that dev2 holds and dev does not
NewObjects(dev, dev2) == {m \in MemIds : dev[m] = NoObj /\ dev2[m] # NoObj}

\* what growth by slots free slots does, for the alloc g that succeeded
GrowthOf(g, k, slots) ==
    /\ g.r.dev # device => g.before.free = <<>>
    /\ g.before.free = <<>> =>
           /\ ChunkedNodeGrowReqs(g.before).size
                  = Min(ChunkedBlockSize(g.ca, g.index) * g.ca.blocks_per_chunk,
                        g.ca.max_chunk_size)
           /\ ChunkedNodeGrowReqs(g.before).alignment = ChunkedBlockSize(g.ca, g.index)
           /\ Cardinality(NewObjects(device, g.r.dev)) = 1
           /\ \A m \in NewObjects(device, g.r.dev) :
                  /\ g.r.dev[m].size = ChunkedNodeGrowReqs(g.before).size
                  /\ g.r.dev[m].type = k
                  /\ g.after.chunks = Append(g.before.chunks, RawBlock(m, 0, g.r.dev[m].size))
           \* the new chunk's slots, the first of them handed out by this call
           /\ g.r.block.tag = Len(g.before.chunks)
           /\ g.r.block.block.start = g.after.chunks[Len(g.after.chunks)].start
           /\ g.after.free = [i \in 1 .. slots - 1 |->
                                 [chunk_index |-> Len(g.before.chunks), block_index |-> i]]
           /\ \A i \in 0 .. slots - 1 :
                  (g.after.chunks[Len(g.after.chunks)].start
                       + i * ChunkedBlockSize(g.ca, g.index))
                      % ChunkedBlockSize(g.ca, g.index) = 0

\* C30 as stated: alloc in class i requests a chunk from the owner only when
\* the class's free list is empty; the request has
\* size = min(block_size(i) * blocks_per_chunk, max_chunk_size) and
\* alignment = block_size(i); growth adds exactly blocks_per_chunk new free
\* slots for the new chunk, each aligned to block_size(i).
ChunkedGrowthAsStated ==
    status = "run" =>
        \A k \in TypeIndices :
            \A reqs \in GrowthRequests(k), b \in Builds :
                \A g \in Growths(k, reqs, b[1], b[2]) :
                    (~g.r.panic /\ g.r.err = "Ok") =>
                        GrowthOf(g, k, g.ca.blocks_per_chunk)

\* C30: alloc in class i requests a chunk from the owner only when the class's
\* free list is empty; the request has
\* size = chunk_size(i) = min(block_size(i) * blocks_per_chunk, max_chunk_size)
\* and alignment = block_size(i); growth adds exactly
\* chunk_size(i) / block_size(i) new free slots for the new chunk, which is
\* blocks_per_chunk unless max_chunk_size caps the chunk, each aligned to
\* block_size(i).
ChunkedGrowth ==
    status = "run" =>
        \A k \in TypeIndices :
            \A reqs \in GrowthRequests(k), b \in Builds :
                \A g \in Growths(k, reqs, b[1], b[2]) :
                    (~g.r.panic /\ g.r.err = "Ok") =>
                        GrowthOf(g, k, ChunkedChunkSize(g.ca, g.index)
                                           \div ChunkedBlockSize(g.ca, g.index))

\* the first class holds a chunk and no free slot, so that an alloc in it
\* grows by a second chunk of two slots, and an alloc in the second class
\* grows by a capped chunk of one slot
ChunkedGrowthWitness ==
    /\ status = "run" /\ layer = "chunked"
    /\ Len(Type0.chunks.nodes) >= 1
    /\ Len(Type0.chunks.nodes[1].chunks) = 1
    /\ Type0.chunks.nodes[1].free = <<>>
    /\ \A g \in Growths(0, [type_mask |-> 1, size |-> 1, alignment |-> 1], TRUE, TRUE) :
           ~g.r.panic /\ g.r.err = "Ok" /\ Len(g.after.chunks) = 2 /\ Len(g.after.free) = 1
    /\ \A g \in Growths(0, [type_mask |-> 1, size |-> 5, alignment |-> 1], TRUE, TRUE) :
           ~g.r.panic /\ g.r.err = "Ok" /\ g.index = 1 /\ g.r.dev # device
                /\ g.after.free = <<>>

\* the sum of the function f over the subset S of its domain
RECURSIVE SumOf(_, _)
SumOf(f, S) ==
    IF S = {} THEN 0
    ELSE LET x == CHOOSE y \in S : TRUE
         IN f[x] + SumOf(f, S \ {x})

\* the root allocator of memory type k
RootOf(k) == smart.allocators[k + 1].allocator.root

\* the bytes of the device memory objects of memory type id
DeviceBytes(dev, id) ==
    SumOf([m \in MemIds |-> dev[m].size], {m \in MemIds : dev[m] # NoObj /\ dev[m].type = id})

\* the bytes of the blocks the client holds
LiveBytes == SumOf([i \in 1 .. Len(live) |-> live[i].end - live[i].start], 1 .. Len(live))

\* C31: in every reachable state of the Root allocator, used equals the sum of
\* the sizes of its live blocks, each of them one device memory object; a
\* failed device allocation leaves used unchanged; and is_used() is true
\* exactly when a block is live, so that used is 0 again and dispose succeeds
\* when every block has been freed.
RootAccounting ==
    status = "run" =>
        /\ \A k \in TypeIndices : RootOf(k).used = DeviceBytes(device, k)
        /\ layer = "root" =>
               /\ RootOf(0).used = LiveBytes
               /\ RootIsUsed(RootOf(0)) <=> live # <<>>
               /\ live = <<>> => RootDispose(RootOf(0)) = "Ok"
               /\ \A rq \in Requests(layer), debug \in BOOLEAN :
                      \A r \in {Outcome(rq, FALSE, debug)} :
                          /\ ~r.panic /\ r.err = "OutOfMemory"
                          /\ r.self.allocators[1].allocator.root.used = RootOf(0).used

\* the root allocator holds two blocks of different sizes after a third block
\* has been freed
RootAccountingWitness ==
    /\ status = "run" /\ layer = "root"
    /\ Len(live) = 2 /\ calls >= 3
    /\ live[1].end # live[2].end
    /\ RootOf(0).used = LiveBytes

\* the blocks of the root allocator of memory type k that are held in the
\* state, each with its holder: the chunks of the arena's nodes, the chunks of
\* the Chunked size classes, and the Root blocks the client holds
RootBlocks(k) ==
    LET c == smart.allocators[k + 1].allocator
    IN (IF c.arenas.hot # NoNode THEN {<<"hot", 0, 0, c.arenas.hot.block>>} ELSE {})
       \cup {<<"fifo", n, 0, c.arenas.nodes[n].block>> : n \in 1 .. Len(c.arenas.nodes)}
       \cup UNION {{<<"class", n, j, c.chunks.nodes[n].chunks[j]>> :
                       j \in 1 .. Len(c.chunks.nodes[n].chunks)} :
                   n \in 1 .. Len(c.chunks.nodes)}
       \cup {<<"live", i, 0, Raw(live[i])>> :
                i \in {j \in 1 .. Len(live) : live[j].kind = "Root" /\ live[j].ty = k}}

\* C32: every block produced by the Root allocator, the chunks held by Arena
\* and Chunked and the Root blocks returned by Combined included, has the
\* range [0, requested size) on a memory object of its own, which no other
\* root block shares, so that RootAllocator::free of it does not fail its
\* assert on start == 0.
RootBlockShape ==
    status = "run" =>
        /\ \A k \in TypeIndices :
               \A b \in RootBlocks(k) :
                   /\ b[4].start = 0
                   /\ device[b[4].memory] # NoObj
                   /\ device[b[4].memory].type = k
                   /\ b[4].end = device[b[4].memory].size
                   /\ ~RootFree(RootOf(k), device, b[4]).panic
                   /\ \A j \in TypeIndices :
                          \A b2 \in RootBlocks(j) :
                              b2[4].memory = b[4].memory => b2 = b /\ j = k
        /\ \A m \in MemIds :
               device[m] # NoObj =>
                   \E k \in TypeIndices : \E b \in RootBlocks(k) : b[4].memory = m

\* the Combined allocator holds an arena chunk and a Chunked chunk and the
\* client a Root block, on three memory objects
RootBlockShapeWitness ==
    /\ status = "run" /\ layer = "combined"
    /\ Cardinality(RootBlocks(0)) = 3
    /\ \E b \in RootBlocks(0) : b[1] = "hot"
    /\ \E b \in RootBlocks(0) : b[1] = "class"
    /\ \E b \in RootBlocks(0) : b[1] = "live"

\* the live blocks the Combined allocator of memory type k has handed out
LiveOfType(k) == {i \in 1 .. Len(live) : live[i].ty = k}

\* C33: in every reachable state CombinedAllocator.allocations equals the
\* number of live blocks it has handed out, is_used() is true exactly when a
\* live Arena, Chunked or Root block of it exists, and whenever allocations is
\* 0 neither the Arena nor the Chunked sub-allocator reports is_used(): the
\* debug_assert in is_used does not fail.
CombinedCount ==
    (status = "run" /\ layer \in {"combined", "smart"}) =>
        \A k \in TypeIndices :
            \A c \in {smart.allocators[k + 1].allocator} :
                /\ c.allocations = Cardinality(LiveOfType(k))
                /\ CombinedIsUsed(c) <=> LiveOfType(k) # {}
                /\ ~CombinedIsUsedPanics(c, TRUE)
                /\ c.allocations = 0 => ~ArenaIsUsed(c.arenas) /\ ~ChunkedIsUsed(c.chunks)

\* every block has been freed and the Combined allocator still holds a drained
\* arena chunk and a Chunked chunk
CombinedCountWitness ==
    /\ status = "run" /\ layer = "combined"
    /\ Type0.allocations = 0 /\ live = <<>>
    /\ Type0.arenas.hot # NoNode
    /\ \E n \in 1 .. Len(Type0.chunks.nodes) : Type0.chunks.nodes[n].chunks # <<>>

\* the live blocks whose memory type maps to the heap of index h
LiveOnHeap(h) ==
    {i \in 1 .. Len(live) : smart.allocators[live[i].ty + 1].memory_type.heap_index = h}

\* C34: in every reachable state of the Smart allocator each heap's used
\* counter equals the sum of block.size() over the live blocks whose memory
\* type maps to that heap, several types sharing one heap included; free
\* debits what alloc credited, so that every heap's used is 0 when every block
\* has been freed.
HeapAccounting ==
    (status = "run" /\ layer = "smart") =>
        \A h \in 1 .. Len(smart.heaps) :
            /\ smart.heaps[h].used
                   = SumOf([i \in 1 .. Len(live) |-> live[i].end - live[i].start],
                           LiveOnHeap(h - 1))
            /\ live = <<>> => smart.heaps[h].used = 0

\* blocks of two memory types that share one heap are live, their sizes
\* differ, and more allocs have been made than blocks are held
HeapAccountingWitness ==
    /\ status = "run" /\ layer = "smart"
    /\ Len(smart.heaps) = 1
    /\ calls > Len(live)
    /\ \E i, j \in 1 .. Len(live) :
           /\ live[i].ty = 0 /\ live[j].ty = 1
           /\ live[i].end - live[i].start # live[j].end - live[j].start
    /\ smart.heaps[1].used > 0

\* the offsets alignment_shift is applied to: the bump offset of the hot node
\* and every offset before it
Offsets == 0 .. (Type0.arenas.hot.block.start + Type0.arenas.hot.used)

\* C35: for every power-of-two alignment a >= 1 and every offset o >= 0 of a
\* bounded range, o + alignment_shift(a, o) is the smallest multiple of a that
\* is >= o, and 0 <= alignment_shift(a, o) < a; the shift is 0 when o is 0 or
\* already aligned.
AlignmentShift ==
    \A a \in AlignPowers, o \in Offsets :
        \A shift \in {alignment_shift(a, o)} :
            /\ 0 <= shift /\ shift < a
            /\ (o + shift) % a = 0
            /\ \A n \in o .. o + shift - 1 : n % a # 0
            /\ o % a = 0 => shift = 0

\* the arena's bump offset is odd, past 16 and on no power-of-two boundary,
\* after blocks of different alignments have been carved
AlignmentShiftWitness ==
    /\ status = "run"
    /\ Type0.arenas.hot.used > 16
    /\ Type0.arenas.hot.used % 2 = 1
    /\ alignment_shift(16, Type0.arenas.hot.used) = 32 - Type0.arenas.hot.used
    /\ \E i, j \in 1 .. Len(live) : live[i].end - live[i].start > 3 /\ live[j].end - live[j].start = 1

\* the requirements asked of the arena of memory type id: the shapes of
\* ShortLived requests, with a mask that includes and one that excludes it
ArenaRequests(id) ==
    {[type_mask |-> m, size |-> sh[1], alignment |-> sh[2]] :
        sh \in ArenaShapes, m \in {Shl1(id), Shl1(1 - id)}}

\* an alloc of reqs on the arena of memory type k in the current state
ArenaOutcomes(k, reqs, devOk) ==
    UNION {{[arena |-> c.arenas, root |-> c.root, r |-> r] :
               r \in {ArenaAlloc(c.arenas, c.root, device, reqs, devOk)}} :
           c \in {smart.allocators[k + 1].allocator}}

\* C36: when the owner refuses the new chunk or the type mask excludes the
\* arena's memory type, ArenaAllocator::alloc returns the error
\* (OutOfMemory, NoCompatibleMemoryType) and leaves freed, the hot node with
\* its used offset, the FIFO, the owner and the device unchanged, so that
\* every live block can be freed as before.
ArenaFailedAlloc ==
    status = "run" =>
        \A k \in TypeIndices :
            \A reqs \in ArenaRequests(k), devOk \in BOOLEAN :
                \A o \in ArenaOutcomes(k, reqs, devOk) :
                    /\ ~o.r.panic
                    /\ MaskExcludes(reqs.type_mask, k) => o.r.err = "NoCompatibleMemoryType"
                    /\ (/\ ~MaskExcludes(reqs.type_mask, k)
                        /\ ~DevCanAlloc(device, devOk)
                        /\ o.arena.hot # NoNode => ~ArenaNodeAlloc(o.arena.hot, reqs).ok) =>
                           o.r.err = "OutOfMemory"
                    /\ o.r.err # "Ok" =>
                           /\ o.r.self = o.arena
                           /\ o.r.root = o.root
                           /\ o.r.dev = device
                           /\ \A i \in LiveArena :
                                  live[i].ty = k =>
                                      ~ArenaFree(o.r.self, o.r.root, o.r.dev, Raw(live[i]),
                                                 live[i].tag).panic

\* the arena holds a node in the FIFO and live blocks in its hot node, which
\* a request does not fit, and the device refuses the chunk it asks for
ArenaFailedAllocWitness ==
    /\ status = "run" /\ layer = "arena"
    /\ Type0.arenas.nodes # <<>>
    /\ ArenaNodeIsUsed(Type0.arenas.hot)
    /\ \E reqs \in ArenaRequests(0) :
           \A o \in ArenaOutcomes(0, reqs, FALSE) :
               /\ o.r.err = "OutOfMemory"
               /\ ~ArenaNodeAlloc(Type0.arenas.hot, reqs).ok
               /\ BlockSize(Type0.arenas.hot.block) - Type0.arenas.hot.used > 0

\* the chunks the arena holds from its owner
ArenaChunks(arena) == Len(arena.nodes) + (IF arena.hot # NoNode THEN 1 ELSE 0)

\* C37: in every reachable state in which no block of an arena is live, the
\* arena's FIFO is empty and the arena holds at most one chunk from its owner,
\* the hot node's; and no chunk is dropped without being returned to the
\* owner: the FIFO is never non-empty while hot is None, no call on the arena
\* traps, and the device holds exactly the chunks the arena holds.
ArenaIdle ==
    /\ layer = "arena" => status # "panic"
    /\ status = "run" =>
           \A k \in TypeIndices :
               \A arena \in {smart.allocators[k + 1].allocator.arenas} :
                   /\ arena.nodes # <<>> => arena.hot # NoNode
                   /\ {i \in LiveArena : live[i].ty = k} = {} =>
                          /\ arena.nodes = <<>>
                          /\ ArenaChunks(arena) <= 1
                          /\ ~ArenaIsUsed(arena)
                   /\ layer = "arena" /\ k = 0 => Held(device) = ArenaChunks(arena)

\* every block has been freed after the arena has rotated its nodes, and it
\* keeps one drained chunk
ArenaIdleWitness ==
    /\ status = "run" /\ layer = "arena"
    /\ live = <<>>
    /\ Type0.arenas.freed > 0
    /\ Type0.arenas.hot # NoNode
    /\ Held(device) = 1

\* the bytes of the live blocks carved from node of the arena of memory type id
LiveBytesIn(id, node) ==
    SumOf([i \in 1 .. Len(live) |-> live[i].end - live[i].start], LiveInNode(id, node))

\* the nodes of an arena: the FIFO's, and the hot node if there is one
NodesOf(arena) ==
    {arena.nodes[n] : n \in 1 .. Len(arena.nodes)}
        \cup (IF arena.hot # NoNode THEN {arena.hot} ELSE {})

\* C38: for requests of size >= 1, in every reachable state
\* ArenaAllocator::is_used() is true if and only if at least one block
\* allocated from the arena has not been freed: each node's used - freed
\* equals the sum of the sizes of its live blocks, and a non-empty FIFO has a
\* live block in its front node.
ArenaIsUsedExact ==
    status = "run" =>
        \A k \in TypeIndices :
            \A arena \in {smart.allocators[k + 1].allocator.arenas} :
                /\ ArenaIsUsed(arena) <=> {i \in LiveArena : live[i].ty = k} # {}
                /\ \A node \in NodesOf(arena) :
                       node.used - node.freed = LiveBytesIn(k, node)
                /\ arena.nodes # <<>> => LiveInNode(k, Head(arena.nodes)) # {}

\* the hot node has had a block freed and holds two live blocks, one of them
\* with alignment padding, behind a node in the FIFO
ArenaIsUsedExactWitness ==
    /\ status = "run" /\ layer = "arena"
    /\ Type0.arenas.nodes # <<>>
    /\ Type0.arenas.hot.freed > 0
    /\ Cardinality(LiveInNode(0, Type0.arenas.hot)) = 2
    /\ LiveBytesIn(0, Type0.arenas.hot) = 3

\* the number of chunks size class c (from 1) of memory type k holds in the
\* allocators sm; a class the allocator has not created yet holds none
ClassChunks(sm, k, c) ==
    IF c <= Len(sm.allocators[k + 1].allocator.chunks.nodes) THEN Len(sm.allocators[k + 1].allocator.chunks.nodes[c].chunks) ELSE 0

\* the number of blocks of the size class with blocks of block_size bytes of
\* memory type id among the client's blocks lv
ClassLive(lv, id, block_size) ==
    Cardinality({i \in 1 .. Len(lv) :
                    /\ lv[i].kind = "Chunked" /\ lv[i].ty = id
                    /\ lv[i].end - lv[i].start = block_size})

\* a call takes size class c of memory type k from a state where the claim
\* holds to one where it holds: whatever the peak P of the class was, with
\* chunks = ceil(P / S) and no fewer than the blocks live now, the chunks
\* after the call are ceil(max(P, live after) / S)
HighWaterKept(k, c, node) ==
    \A P \in 0 .. ClassChunks(smart, k, c) * ChunkedNodeBlocksPerChunk(node) :
        (/\ ClassChunks(smart, k, c) = CeilDiv(P, ChunkedNodeBlocksPerChunk(node))
         /\ ClassLive(live, k, node.block_size) <= P)
            => Len(node.chunks)
                   = CeilDiv(Max(P, ClassLive(live', k, node.block_size)),
                             ChunkedNodeBlocksPerChunk(node))

\* C39: in every reachable state the number of chunks held in size class i
\* equals ceil(P_i / S_i), where P_i is the largest number of blocks of class
\* i that were ever live at the same time and S_i = chunk_size(i) /
\* block_size(i) is the number of slots per chunk; a failed chunk request from
\* the owner adds no chunk and no slot.  P_i is a fact about the run, so the
\* equality is stated by induction on the run: no class holds a chunk at the
\* start, where P_i = 0; every class has room for the blocks that are live;
\* and every call keeps the equality, whatever the peak was before it.
HighWaterMark ==
    /\ \A k \in TypeIndices : smart.allocators[k + 1].allocator.chunks.nodes = <<>>
    /\ [](status = "run" =>
            \A k \in TypeIndices :
                /\ \A c \in 1 .. Len(smart.allocators[k + 1].allocator.chunks.nodes) :
                       \A node \in {smart.allocators[k + 1].allocator.chunks.nodes[c]} :
                           /\ ChunkedNodeBlocksPerChunk(node) >= 1
                           /\ ClassLive(live, k, node.block_size)
                                  <= Len(node.chunks) * ChunkedNodeBlocksPerChunk(node)
                /\ \A reqs \in GrowthRequests(k), b \in Builds :
                       \A g \in Growths(k, reqs, b[1], b[2]) :
                           (~g.r.panic /\ g.r.err # "Ok") =>
                               /\ g.after.chunks = g.before.chunks
                               /\ g.after.free = g.before.free
                               /\ g.r.dev = device)
    /\ [][(status = "run" /\ status' = "run") =>
            \A k \in TypeIndices :
                \A c \in 1 .. Len(smart.allocators[k + 1].allocator.chunks.nodes') :
                    \A node \in {smart.allocators[k + 1].allocator.chunks.nodes'[c]} :
                        HighWaterKept(k, c, node)]_vars

\* the first class holds the two chunks of its peak of three blocks with
\* fewer blocks live, and the second class holds one chunk without a free
\* slot, so that its next alloc asks the owner for a chunk, which fails
HighWaterMarkWitness ==
    /\ status = "run" /\ layer = "chunked"
    /\ Len(Type0.chunks.nodes) = 2
    /\ Len(Type0.chunks.nodes[1].chunks) = 2
    /\ ClassLive(live, 0, Type0.chunks.nodes[1].block_size) < 3
    /\ Len(Type0.chunks.nodes[2].chunks) = 1
    /\ Type0.chunks.nodes[2].free = <<>>
    /\ \A g \in Growths(0, [type_mask |-> 1, size |-> 5, alignment |-> 1], FALSE, TRUE) :
           ~g.r.panic /\ g.r.err # "Ok"

====
